---- MODULE Spec2Model ----
(***************************************************************************)
(* Verification model of gemini-pr-reviewer: diff numbering and anchor     *)
(* resolution (src/diff.ts), the concurrency limiter (src/util.ts) and the *)
(* review pipeline (src/index.ts).                                         *)
(***************************************************************************)
EXTENDS Integers, Sequences, FiniteSets, TLC

VARIABLES
  dPc,        \* diff functions: "input" -> "built" -> "resolved"
  dFile,      \* the DiffFile handed to buildNumberedPatch
  dOptions,   \* DiffParseOptions: maxHunksPerFile, maxLinesPerHunk
  dPatch,     \* the NumberedPatch buildNumberedPatch returned
  dQuery,     \* the virtual position handed to the resolvers
  dAdjust,    \* result of adjustToReviewablePosition(dQuery, ...)
  dStart,     \* result of resolveCommentPosition(dQuery, ...)
  dEnd,       \* result of resolveEndPosition(dQuery, ...)
  lImpl,      \* pLimit: "loop" (the hand-written limiter) or "lib" (p-limit + Promise.all)
  lLimit,     \* pLimit: the limit argument
  lTasks,     \* pLimit: the tasks argument
  lPc,        \* pLimit: "idle", "iter", "race", "all", "lib", "done", "rejected"
  lNext,      \* pLimit: number of tasks started so far (the loop's i)
  lState,     \* per task: "queued", "running", "fulfilled", "failed"
  lActive,    \* the active array (loop) / the tasks holding a slot (lib)
  lP,         \* per task: state of its slot promise p: "none", "pending", "ok", "err"
  lWait,      \* the promises Promise.race / Promise.all was called on, and the outcome
  lKicks,     \* lib: scheduled queue checks not yet run
  lResults,   \* the results array
  lReturned,  \* per task: the value its promise fulfilled with
  lCalls,     \* per task: how often the task function was invoked
  lOrder,     \* task ids in the order they settled
  lPrompt,    \* per task: what the task embedded in its prompt when it started
  lOut,       \* what pLimit's promise settled with
  rPc,        \* run(): "TriggerCheck", "FetchContext", "GlobalPass", "InlinePass",
              \*   "InlineWait", "Publish", "Fallback", "Skipped", "Done", "Failed",
              \*   "EmptyDiff"
  rEvent,     \* the event payload: is it a pull-request comment, does it hold the trigger
  rConfig,    \* Config: patterns, caps, globalReview
  rDiff,      \* the DiffFile[] parsed from the pull request's diff
  rFiles,     \* filterDiffFiles(rDiff, rConfig)
  rPatches,   \* the NumberedPatch of every filtered file
  rGoal,      \* the goal statement and how it was resolved
  rGlobal,    \* the global summary/findings and how they were resolved
  rComments,  \* the aggregated ReviewComment[]
  rBody,      \* the summary text, the body of the review
  rReviewCalls, \* createReview calls made: body, comments, final HTTP status
  rIssueCalls,  \* postIssueComment calls made: body, final HTTP status
  rOutcome,   \* what the caller of run() saw: "running", "returned", "threw"
  fPc,        \* a pure function on its own: "idle", "input", "applied"
  fIn,        \* the function and the arguments it is called with
  fOut,       \* what it returned
  wPc,        \* withRetry: "idle", "call", "sleep", "returned", "threw"
  wOpts,      \* withRetry: opts, the defaults overlaid with the options given
  wAttempt,   \* withRetry: the loop's attempt counter
  wCalls,     \* withRetry: how each call of fn settled, in call order
  wSlept,     \* withRetry: the delays slept, in order
  wOut        \* withRetry: the value returned or the error thrown

diffVars == <<dPc, dFile, dOptions, dPatch, dQuery, dAdjust, dStart, dEnd>>
limVars == <<lImpl, lLimit, lTasks, lPc, lNext, lState, lActive, lP, lWait, lKicks,
             lResults, lReturned, lCalls, lOrder, lPrompt, lOut>>

runVars == <<rPc, rEvent, rConfig, rDiff, rFiles, rPatches, rGoal, rGlobal, rComments,
             rBody, rReviewCalls, rIssueCalls, rOutcome>>

fnVars == <<fPc, fIn, fOut>>
retryVars == <<wPc, wOpts, wAttempt, wCalls, wSlept, wOut>>

vars == <<diffVars, limVars, runVars, fnVars, retryVars>>

-----------------------------------------------------------------------------
(* Bounds of the model *)

\* most hunks in an enumerated DiffFile
MaxHunks == 2
\* most body lines, over all hunks, in an enumerated DiffFile
MaxBody == 4
\* largest per-file hunk cap / per-hunk line cap tried
MaxCap == 2
\* largest concurrency cap of the inline pass
MaxInline == 2
\* most tasks handed to pLimit
MaxTasks == 3
\* largest limit handed to pLimit
MaxLimit == 3
\* largest maxAttempts handed to withRetry
MaxAttempts == 3
\* largest maxFiles handed to filterDiffFiles on its own
MaxFiles == 3
\* passes of withRetry's loop that are followed
MaxRounds == 4
\* largest line budget handed to buildGlobalDiff
MaxGlobalLines == 15

-----------------------------------------------------------------------------
(* Generic helpers *)

\* `null` / `undefined`: line numbers and positions are all >= 1
Null == 0

Max(a, b) == IF a >= b THEN a ELSE b
Min(a, b) == IF a <= b THEN a ELSE b

\* Map.prototype.set
MapSet(m, k, v) == [x \in (DOMAIN m) \cup {k} |-> IF x = k THEN v ELSE m[x]]

\* MUTANT of SliceTo: nothing is cut off
SliceToAll(s, n) == s

\* Array.prototype.slice(0, n)
SliceTo(s, n) == SubSeq(s, 1, Min(Len(s), Max(n, 0)))

\* String.prototype.toLowerCase on the words of the model
toLowerCase(word) ==
  CASE word = "ECONNRESET" -> "econnreset"
    [] word = "ETIMEDOUT" -> "etimedout"
    [] word = "Network" -> "network"
    [] word = "Service" -> "service"
    [] word = "Unavailable" -> "unavailable"
    [] word = "Too" -> "too"
    [] word = "Many" -> "many"
    [] word = "Requests" -> "requests"
    [] word = "Not" -> "not"
    [] word = "Found" -> "found"
    [] word = "Something" -> "something"
    [] word = "GitHub" -> "github"
    [] word = "API" -> "api"
    [] word \in {"CRITICAL", "Critical"} -> "critical"
    [] word \in {"HIGH", "High"} -> "high"
    [] word \in {"MEDIUM", "Medium"} -> "medium"
    [] word \in {"LOW", "Low"} -> "low"
    [] word = "Urgent" -> "urgent"
    [] OTHER -> word

EmptyMap == [x \in {} |-> Null]

-----------------------------------------------------------------------------
(* DiffLine / DiffHunk / DiffFile as parseUnifiedDiff produces them *)

NoNewline == "\\ No newline at end of file"

\* the kinds of body line a unified diff holds
Kinds == {"add", "del", "normal", "nonl"}

\* One DiffLine of kind k, following `prev` (Null at the start of a hunk),
\* next new-file line number `cur`. A "\ No newline" marker takes the type and
\* numbers of the change before it.
MkLine(k, prev, cur) ==
  CASE k = "add"    -> [content |-> "+code", type |-> "add", newNumber |-> cur]
    [] k = "normal" -> [content |-> " code", type |-> "normal", newNumber |-> cur]
    [] k = "del"    -> [content |-> "-code", type |-> "del", newNumber |-> Null]
    [] k = "nonl"   -> [content |-> NoNewline, type |-> prev.type,
                        newNumber |-> prev.newNumber]

RECURSIVE MkLines(_, _, _, _)
MkLines(kinds, i, cur, acc) ==
  IF i > Len(kinds) THEN acc
  ELSE LET prev == IF acc = <<>> THEN Null ELSE acc[Len(acc)]
           line == MkLine(kinds[i], prev, cur)
           nxt  == IF kinds[i] \in {"add", "normal"} THEN cur + 1 ELSE cur
       IN MkLines(kinds, i + 1, nxt, Append(acc, line))

\* number of new-file lines a hunk of these kinds covers
NewSpan(kinds) == Cardinality({i \in 1..Len(kinds) : kinds[i] \in {"add", "normal"}})

\* The hunks of a file whose hunk bodies have the kinds in `shape` (a sequence
\* of kind sequences); hunk h+1 starts past the end of hunk h, with a gap.
RECURSIVE MkHunks(_, _, _, _)
MkHunks(shape, h, start, acc) ==
  IF h > Len(shape) THEN acc
  ELSE MkHunks(shape, h + 1, start + NewSpan(shape[h]) + 10,
               Append(acc, [header |-> "@@ -a,b +c,d @@",
                            lines  |-> MkLines(shape[h], 1, start, <<>>)]))

MkFile(path, shape) == [path |-> path, hunks |-> MkHunks(shape, 1, 1, <<>>)]

\* kind sequences of length n in which no marker comes first
KindSeqs(n) == {s \in [1..n -> Kinds] : s[1] # "nonl"}

\* the ways to cut a body of n lines into at most MaxHunks non-empty hunks:
\* the set of cut points (a hunk ends after line c)
Cuts(n) == {c \in SUBSET (1..(n - 1)) : Cardinality(c) < MaxHunks}

RECURSIVE CutShape(_, _, _, _)
CutShape(s, cuts, i, acc) ==
  IF i > Len(s) THEN acc
  ELSE LET last == acc[Len(acc)]
       IN IF (i - 1) \in cuts
          THEN CutShape(s, cuts, i + 1, Append(acc, <<s[i]>>))
          ELSE CutShape(s, cuts, i + 1,
                        [acc EXCEPT ![Len(acc)] = Append(last, s[i])])

\* a marker never starts a hunk
ShapeOk(shape) == \A h \in 1..Len(shape) : shape[h][1] # "nonl"

ShapesOfLen(n) ==
  UNION {{CutShape(s, c, 2, << <<s[1]>> >>) : c \in Cuts(n)} : s \in KindSeqs(n)}

Shapes == UNION {ShapesOfLen(n) : n \in 1..MaxBody}

\* test/diff.test.ts, 'correctly maps truncated hunk positions', and the
\* 5-line hunk capped at 2 of the specification, followed by a second hunk
FiveAdds == [i \in 1..5 |-> "add"]
FixtureShapes == {<<FiveAdds, <<"add", "add">> >>}

Files == {MkFile("src/a.ts", sh) : sh \in {x \in Shapes : ShapeOk(x)} \cup FixtureShapes}

Options == [maxHunksPerFile : 1..MaxCap, maxLinesPerHunk : 1..MaxCap]

-----------------------------------------------------------------------------
(* buildNumberedPatch *)

\* fileLineNumber of a rendered body line: copied from DiffLine.newNumber
fileLineNumberOf(line) == line.newNumber

\* MUTANT of isReviewable: the "no trailing newline" test is dropped
isReviewableByTypeOnly(line) == line.type \in {"add", "normal"}

isReviewable(line) ==
  /\ line.type \in {"add", "normal"}
  /\ line.content # NoNewline

\* MUTANT of BuildLines: diffPosition advances only for the lines that are
\* rendered, so it is re-derived from position and loses the truncated lines.
RECURSIVE BuildLinesRenderedOnly(_, _, _, _, _)
BuildLinesRenderedOnly(acc, hunk, hunkIndex, index, limitedLinesCount) ==
  IF index >= Len(hunk.lines) \/ index >= limitedLinesCount THEN acc
  ELSE
    LET line == hunk.lines[index + 1]
        diffPosition == acc.diffPosition + 1
        position == acc.position + 1
        meta == [position |-> position,
                 diffPosition |-> diffPosition,
                 reviewable |-> isReviewable(line),
                 hunkIndex |-> hunkIndex,
                 content |-> line.content,
                 fileLineNumber |-> fileLineNumberOf(line)]
    IN BuildLinesRenderedOnly(
         [position |-> position,
          diffPosition |-> diffPosition,
          lines |-> Append(acc.lines, <<position, line.content>>),
          lineMeta |-> MapSet(acc.lineMeta, position, meta),
          hunkPositions |-> MapSet(acc.hunkPositions, hunkIndex,
                                   Append(acc.hunkPositions[hunkIndex], position))],
         hunk, hunkIndex, index + 1, limitedLinesCount)

\* MUTANT of BuildLines: every body line is recorded with hunkIndex 0.
RECURSIVE BuildLinesHunkZero(_, _, _, _, _)
BuildLinesHunkZero(acc, hunk, hunkIndex, index, limitedLinesCount) ==
  IF index >= Len(hunk.lines) THEN acc
  ELSE
    LET line == hunk.lines[index + 1]
        diffPosition == acc.diffPosition + 1
    IN IF index < limitedLinesCount
       THEN LET position == acc.position + 1
                meta == [position |-> position,
                         diffPosition |-> diffPosition,
                         reviewable |-> isReviewable(line),
                         hunkIndex |-> 0,
                         content |-> line.content,
                         fileLineNumber |-> fileLineNumberOf(line)]
            IN BuildLinesHunkZero(
                 [position |-> position,
                  diffPosition |-> diffPosition,
                  lines |-> Append(acc.lines, <<position, line.content>>),
                  lineMeta |-> MapSet(acc.lineMeta, position, meta),
                  hunkPositions |-> MapSet(acc.hunkPositions, hunkIndex,
                                           Append(acc.hunkPositions[hunkIndex], position))],
                 hunk, hunkIndex, index + 1, limitedLinesCount)
       ELSE BuildLinesHunkZero([acc EXCEPT !.diffPosition = diffPosition],
                               hunk, hunkIndex, index + 1, limitedLinesCount)

\* hunk.lines.forEach((line, index) => ...), index 0-based
RECURSIVE BuildLines(_, _, _, _, _)
BuildLines(acc, hunk, hunkIndex, index, limitedLinesCount) ==
  IF index >= Len(hunk.lines) THEN acc
  ELSE
    LET line == hunk.lines[index + 1]
        diffPosition == acc.diffPosition + 1
    IN IF index < limitedLinesCount
       THEN LET position == acc.position + 1
                meta == [position |-> position,
                         diffPosition |-> diffPosition,
                         reviewable |-> isReviewable(line),
                         hunkIndex |-> hunkIndex,
                         content |-> line.content,
                         fileLineNumber |-> fileLineNumberOf(line)]
                positions == IF hunkIndex \in DOMAIN acc.hunkPositions
                             THEN acc.hunkPositions[hunkIndex] ELSE <<>>
            IN BuildLines(
                 [position |-> position,
                  diffPosition |-> diffPosition,
                  lines |-> Append(acc.lines, <<position, line.content>>),
                  lineMeta |-> MapSet(acc.lineMeta, position, meta),
                  hunkPositions |-> MapSet(acc.hunkPositions, hunkIndex,
                                           Append(positions, position))],
                 hunk, hunkIndex, index + 1, limitedLinesCount)
       ELSE BuildLines([acc EXCEPT !.diffPosition = diffPosition],
                       hunk, hunkIndex, index + 1, limitedLinesCount)

\* MUTANT of BuildHunk: the header takes a position but is not recorded under
\* its hunk index
BuildHunkHeaderUnlisted(acc, hunk, hunkIndex, options) ==
  LET diffPosition == acc.diffPosition + 1
      headerPosition == acc.position + 1
      meta == [position |-> headerPosition,
               diffPosition |-> diffPosition,
               reviewable |-> FALSE,
               hunkIndex |-> hunkIndex,
               content |-> hunk.header,
               fileLineNumber |-> Null]
  IN BuildLines(
       [position |-> headerPosition,
        diffPosition |-> diffPosition,
        lines |-> Append(acc.lines, <<headerPosition, hunk.header>>),
        lineMeta |-> MapSet(acc.lineMeta, headerPosition, meta),
        hunkPositions |-> MapSet(acc.hunkPositions, hunkIndex, <<>>)],
       hunk, hunkIndex, 0, options.maxLinesPerHunk)

\* the header of one hunk, then its body
BuildHunk(acc, hunk, hunkIndex, options) ==
  LET diffPosition == acc.diffPosition + 1
      headerPosition == acc.position + 1
      meta == [position |-> headerPosition,
               diffPosition |-> diffPosition,
               reviewable |-> FALSE,
               hunkIndex |-> hunkIndex,
               content |-> hunk.header,
               fileLineNumber |-> Null]
  IN BuildLines(
       [position |-> headerPosition,
        diffPosition |-> diffPosition,
        lines |-> Append(acc.lines, <<headerPosition, hunk.header>>),
        lineMeta |-> MapSet(acc.lineMeta, headerPosition, meta),
        hunkPositions |-> MapSet(acc.hunkPositions, hunkIndex, <<headerPosition>>)],
       hunk, hunkIndex, 0, options.maxLinesPerHunk)

\* hunks.forEach((hunk, hunkIndex) => ...), hunkIndex 0-based
RECURSIVE BuildHunks(_, _, _, _)
BuildHunks(acc, hunks, hunkIndex, options) ==
  IF hunkIndex >= Len(hunks) THEN acc
  ELSE BuildHunks(BuildHunk(acc, hunks[hunkIndex + 1], hunkIndex, options),
                  hunks, hunkIndex + 1, options)

buildNumberedPatch(file, options) ==
  LET hunks == SliceTo(file.hunks, options.maxHunksPerFile)
      out == BuildHunks([position |-> 0, diffPosition |-> 0, lines |-> <<>>,
                         lineMeta |-> EmptyMap, hunkPositions |-> EmptyMap],
                        hunks, 0, options)
  IN [lines |-> out.lines, lineMeta |-> out.lineMeta,
      hunkPositions |-> out.hunkPositions]

-----------------------------------------------------------------------------
(* buildGlobalDiff: the text is modelled by the sequence of its lines *)

\* `File: ${file.path}`
FileMarker(path) ==
  CASE path = "src/a.ts" -> "File: src/a.ts"
    [] path = "docs/b.md" -> "File: docs/b.md"
    [] OTHER -> "File: README.md"

\* MUTANT of pushLine: the budget is tested with > instead of >=
pushLineOneMore(lines, line, maxLines) ==
  IF Len(lines) > maxLines THEN [ok |-> FALSE, lines |-> lines]
  ELSE [ok |-> TRUE, lines |-> Append(lines, line)]

\* if (lines.length >= maxLines) return false; lines.push(line); return true
pushLine(lines, line, maxLines) ==
  IF Len(lines) >= maxLines THEN [ok |-> FALSE, lines |-> lines]
  ELSE [ok |-> TRUE, lines |-> Append(lines, line)]

\* for (const line of limitedLines) if (!pushLine(line.content)) return ...
RECURSIVE GlobalLineLoop(_, _, _, _)
GlobalLineLoop(limitedLines, k, lines, maxLines) ==
  IF k > Len(limitedLines) THEN [returned |-> FALSE, lines |-> lines]
  ELSE LET r == pushLine(lines, limitedLines[k].content, maxLines)
       IN IF ~r.ok THEN [returned |-> TRUE, lines |-> lines]
          ELSE GlobalLineLoop(limitedLines, k + 1, r.lines, maxLines)

\* for (const hunk of hunks) { if (!pushLine(hunk.header)) return ...; ... }
RECURSIVE GlobalHunkLoop(_, _, _, _, _)
GlobalHunkLoop(hunks, h, lines, options, maxLines) ==
  IF h > Len(hunks) THEN [returned |-> FALSE, lines |-> lines]
  ELSE LET r == pushLine(lines, hunks[h].header, maxLines)
       IN IF ~r.ok THEN [returned |-> TRUE, lines |-> lines]
          ELSE LET limitedLines == SliceTo(hunks[h].lines, options.maxLinesPerHunk)
                   b == GlobalLineLoop(limitedLines, 1, r.lines, maxLines)
               IN IF b.returned THEN b
                  ELSE GlobalHunkLoop(hunks, h + 1, b.lines, options, maxLines)

\* for (const file of files) { if (!pushLine(`File: ...`)) break; ... }
RECURSIVE GlobalFileLoop(_, _, _, _, _)
GlobalFileLoop(files, f, lines, options, maxLines) ==
  IF f > Len(files) THEN lines
  ELSE LET r == pushLine(lines, FileMarker(files[f].path), maxLines)
       IN IF ~r.ok THEN lines
          ELSE LET hunks == SliceTo(files[f].hunks, options.maxHunksPerFile)
                   b == GlobalHunkLoop(hunks, 1, r.lines, options, maxLines)
               IN IF b.returned THEN b.lines
                  ELSE GlobalFileLoop(files, f + 1, b.lines, options, maxLines)

buildGlobalDiff(files, options, maxLines) ==
  IF maxLines <= 0 THEN <<>>
  ELSE GlobalFileLoop(files, 1, <<>>, options, maxLines)

-----------------------------------------------------------------------------
(* adjustToReviewablePosition / resolveCommentPosition / resolveEndPosition *)

\* MUTANT of ScanForward: the `pos > lineNumber` test is missing, so the
\* search returns the first reviewable line of the hunk, also one before p.
RECURSIVE ScanForwardNoGuard(_, _, _, _)
ScanForwardNoGuard(positions, k, lineNumber, lineMeta) ==
  IF k > Len(positions) THEN Null
  ELSE LET pos == positions[k]
       IN IF pos \in DOMAIN lineMeta /\ lineMeta[pos].reviewable
          THEN pos
          ELSE ScanForwardNoGuard(positions, k + 1, lineNumber, lineMeta)

\* for (const pos of positions) if (pos > lineNumber && reviewable) return pos
RECURSIVE ScanForward(_, _, _, _)
ScanForward(positions, k, lineNumber, lineMeta) ==
  IF k > Len(positions) THEN Null
  ELSE LET pos == positions[k]
       IN IF /\ pos > lineNumber
             /\ pos \in DOMAIN lineMeta
             /\ lineMeta[pos].reviewable
          THEN pos
          ELSE ScanForward(positions, k + 1, lineNumber, lineMeta)

\* the position the forward search settles on: the line itself when it is
\* reviewable, else the first reviewable position after it in its hunk
ForwardTarget(lineNumber, lineMeta, hunkPositions) ==
  IF lineNumber \notin DOMAIN lineMeta THEN Null
  ELSE LET meta == lineMeta[lineNumber]
       IN IF meta.reviewable THEN lineNumber
          ELSE LET positions == IF meta.hunkIndex \in DOMAIN hunkPositions
                                THEN hunkPositions[meta.hunkIndex] ELSE <<>>
               IN ScanForward(positions, 1, lineNumber, lineMeta)

adjustToReviewablePosition(lineNumber, lineMeta, hunkPositions) ==
  LET pos == ForwardTarget(lineNumber, lineMeta, hunkPositions)
  IN IF pos = Null THEN Null ELSE lineMeta[pos].diffPosition

resolveCommentPosition(virtualPosition, lineMeta, hunkPositions) ==
  LET pos == ForwardTarget(virtualPosition, lineMeta, hunkPositions)
  IN IF pos = Null THEN Null ELSE lineMeta[pos].fileLineNumber

\* the same hunk's positions in decreasing order
RECURSIVE ScanBackward(_, _, _, _)
ScanBackward(positions, k, lineNumber, lineMeta) ==
  IF k < 1 THEN Null
  ELSE LET pos == positions[k]
       IN IF /\ pos < lineNumber
             /\ pos \in DOMAIN lineMeta
             /\ lineMeta[pos].reviewable
          THEN pos
          ELSE ScanBackward(positions, k - 1, lineNumber, lineMeta)

BackwardTarget(lineNumber, lineMeta, hunkPositions) ==
  IF lineNumber \notin DOMAIN lineMeta THEN Null
  ELSE LET meta == lineMeta[lineNumber]
       IN IF meta.reviewable THEN lineNumber
          ELSE LET positions == IF meta.hunkIndex \in DOMAIN hunkPositions
                                THEN hunkPositions[meta.hunkIndex] ELSE <<>>
               IN ScanBackward(positions, Len(positions), lineNumber, lineMeta)

resolveEndPosition(virtualPosition, lineMeta, hunkPositions) ==
  LET pos == BackwardTarget(virtualPosition, lineMeta, hunkPositions)
  IN IF pos = Null THEN Null ELSE lineMeta[pos].fileLineNumber

-----------------------------------------------------------------------------
(* filterDiffFiles *)

\* minimatch(path, pattern, { matchBase: true, dot: true }) on the paths and
\* patterns of the model
minimatch(path, pattern) ==
  <<path, pattern>> \in {<<"src/a.ts", "*.ts">>, <<"src/a.ts", "src/**">>,
                         <<"docs/b.md", "*.md">>, <<"docs/b.md", "docs/**">>,
                         <<"README.md", "*.md">>}

\* MUTANT of FilterLoop: the exclude list is read only when no include list is given
RECURSIVE FilterLoopIncludeWins(_, _, _, _)
FilterLoopIncludeWins(files, k, options, filtered) ==
  IF k > Len(files) THEN filtered
  ELSE
    LET file == files[k]
        matchesInclude == \E j \in DOMAIN options.includePatterns :
                            minimatch(file.path, options.includePatterns[j])
        matchesExclude == \E j \in DOMAIN options.excludePatterns :
                            minimatch(file.path, options.excludePatterns[j])
    IN IF Len(options.includePatterns) > 0 /\ ~matchesInclude
       THEN FilterLoopIncludeWins(files, k + 1, options, filtered)
       ELSE IF Len(options.includePatterns) = 0 /\ matchesExclude
       THEN FilterLoopIncludeWins(files, k + 1, options, filtered)
       ELSE IF Len(filtered) + 1 >= options.maxFiles
       THEN Append(filtered, file)
       ELSE FilterLoopIncludeWins(files, k + 1, options, Append(filtered, file))

\* for (const file of files) { ...; filtered.push(file); if (length >= maxFiles) break }
RECURSIVE FilterLoop(_, _, _, _)
FilterLoop(files, k, options, filtered) ==
  IF k > Len(files) THEN filtered
  ELSE
    LET file == files[k]
        matchesInclude == \E j \in DOMAIN options.includePatterns :
                            minimatch(file.path, options.includePatterns[j])
        matchesExclude == \E j \in DOMAIN options.excludePatterns :
                            minimatch(file.path, options.excludePatterns[j])
    IN IF Len(options.includePatterns) > 0 /\ ~matchesInclude
       THEN FilterLoop(files, k + 1, options, filtered)
       ELSE IF Len(options.excludePatterns) > 0 /\ matchesExclude
       THEN FilterLoop(files, k + 1, options, filtered)
       ELSE IF Len(filtered) + 1 >= options.maxFiles
       THEN Append(filtered, file)
       ELSE FilterLoop(files, k + 1, options, Append(filtered, file))

filterDiffFiles(files, options) == FilterLoop(files, 1, options, <<>>)

-----------------------------------------------------------------------------
(* Model responses and their parsers (gemini.ts) *)

\* GeminiClient.generate: withRetry gave up and threw
Rejected == [kind |-> "rejected"]
\* a response text that JSON.parse rejects
NotJson == [kind |-> "garbage"]
\* a response text that is the JSON document obj
JsonText(obj) == [kind |-> "json", obj |-> obj]

\* review?.priority of an item that has no priority property
Undefined == "<undefined>"

\* MUTANT of normalizePriority: the value is compared as it was spelled
normalizePriorityCaseSensitive(value) ==
  LET raw == IF value \in {Undefined, ""} THEN "" ELSE value
  IN IF raw = "critical" THEN "high"
     ELSE IF raw \in {"high", "medium", "low"} THEN raw
     ELSE "medium"

\* const raw = String(value || '').toLowerCase(); ...
normalizePriority(value) ==
  LET raw == toLowerCase(IF value \in {Undefined, ""} THEN "" ELSE value)
  IN IF raw = "critical" THEN "high"
     ELSE IF raw \in {"high", "medium", "low"} THEN raw
     ELSE "medium"

\* for (const review of reviews) { ... results.push(...) }
RECURSIVE ParseReviewItems(_, _, _)
ParseReviewItems(reviews, k, results) ==
  IF k > Len(reviews) THEN results
  ELSE
    LET review == reviews[k]
        lineNumber == review.lineNumber
        rawEnd == review.endLineNumber
        endLineNumber == IF rawEnd > lineNumber THEN rawEnd ELSE Null
    IN IF lineNumber <= 0 \/ review.reviewComment = ""
       THEN ParseReviewItems(reviews, k + 1, results)
       ELSE ParseReviewItems(reviews, k + 1,
              Append(results, [lineNumber |-> lineNumber,
                               endLineNumber |-> endLineNumber,
                               reviewComment |-> review.reviewComment,
                               priority |-> normalizePriority(review.priority)]))

\* MUTANT of parseReviews: a text that does not parse yields a finding
parseReviewsLenient(text) ==
  IF text.kind # "json"
  THEN <<[lineNumber |-> 2, endLineNumber |-> Null, reviewComment |-> "c",
          priority |-> "medium"]>>
  ELSE IF ~text.obj.isArray THEN <<>>
  ELSE ParseReviewItems(text.obj.reviews, 1, <<>>)

parseReviews(text) ==
  IF text.kind # "json" THEN <<>>
  ELSE IF ~text.obj.isArray THEN <<>>
  ELSE ParseReviewItems(text.obj.reviews, 1, <<>>)

\* a property value that is present and not a string (a number, an object)
NotAString == "<number>"

\* parsed?.name: the property's value, or undefined when the object lacks it
Field(obj, name) == IF name \in DOMAIN obj THEN obj[name] ELSE Undefined

\* typeof value === 'string' ? sanitizeText(value) : ''
StringOrEmpty(value) == IF value \in {Undefined, NotAString} THEN "" ELSE value

parseGlobalReview(text) ==
  IF text.kind # "json" THEN [summary |-> "", findings |-> <<>>]
  ELSE LET findingsRaw == IF "findings" \in DOMAIN text.obj THEN text.obj.findings
                          ELSE IF "crossFileFindings" \in DOMAIN text.obj
                          THEN text.obj.crossFileFindings
                          ELSE <<>>
       IN [summary |-> StringOrEmpty(Field(text.obj, "summary")),
           findings |-> SelectSeq(findingsRaw, LAMBDA item : item # "")]

\* MUTANT of parsePRGoal: a property is copied without the typeof test
parsePRGoalUnchecked(text) ==
  IF text.kind # "json" THEN [goal |-> "", context |-> ""]
  ELSE [goal |-> Field(text.obj, "goal"), context |-> Field(text.obj, "context")]

parsePRGoal(text) ==
  IF text.kind # "json" THEN [goal |-> "", context |-> ""]
  ELSE [goal |-> StringOrEmpty(Field(text.obj, "goal")),
        context |-> StringOrEmpty(Field(text.obj, "context"))]

\* what the model may answer to the goal prompt and to the global prompt
GoalResponses ==
  {Rejected, NotJson, JsonText([goal |-> "G", context |-> "C"])}
GlobalResponses ==
  {Rejected, NotJson, JsonText([summary |-> "S", findings |-> <<"F", "">>])}

\* the review items the model may return for a rendered patch: any line
\* number from 0 to one past the last rendered line, a range from the first
\* body line to the last line, a range over lines 3 to 4, an empty comment
RawReviews(patch) ==
  {[lineNumber |-> p, endLineNumber |-> Null, reviewComment |-> "c", priority |-> "critical"] :
     p \in 0..(Len(patch.lines) + 1)}
  \cup {[lineNumber |-> 2, endLineNumber |-> Len(patch.lines), reviewComment |-> "c",
          priority |-> "medium"],
         [lineNumber |-> 3, endLineNumber |-> 4, reviewComment |-> "c", priority |-> "high"],
         [lineNumber |-> 2, endLineNumber |-> Null, reviewComment |-> "", priority |-> "low"]}

\* what the model may answer to the inline prompt of a file
ReviewResponses(patch) ==
  {Rejected, NotJson, JsonText([isArray |-> FALSE, reviews |-> <<>>])}
  \cup {JsonText([isArray |-> TRUE, reviews |-> <<r>>]) : r \in RawReviews(patch)}
  \cup {JsonText([isArray |-> TRUE,
                  reviews |-> <<[lineNumber |-> 2, endLineNumber |-> Null,
                                 reviewComment |-> "c", priority |-> "low"],
                                [lineNumber |-> 2, endLineNumber |-> Null,
                                 reviewComment |-> "c", priority |-> "low"]>>])}

-----------------------------------------------------------------------------
(* The inline task of one file (index.ts) *)

\* the closure handed to pLimit for one filtered file
InlineTask(file, patch, goal, summary) ==
  [kind |-> "inline", path |-> file.path, patch |-> patch,
   goal |-> goal, summary |-> summary]

\* The task's value for a model answer: client.review(prompt) parses the text;
\* a rejected call is caught and counts as no findings. `raw` remembers the
\* answer the findings were made from.
InlineResult(resp) ==
  [raw |-> resp,
   reviews |-> IF resp.kind = "rejected" THEN <<>> ELSE parseReviews(resp)]

\* the inline prompt of a file embeds the goal and the global summary
InlinePrompt(task) ==
  [path |-> task.path, lines |-> task.patch.lines,
   goal |-> task.goal, summary |-> task.summary]

-----------------------------------------------------------------------------
(* pLimit(tasks, limit): the hand-written limiter and the p-limit wrapper *)

Range(f) == {f[x] : x \in DOMAIN f}

\* a hole of `new Array(n)`, or a value not there yet
Empty == "empty"

\* values an abstract task may return
Values == {"x", "y"}

AbstractTask == [kind |-> "abstract"]

\* the slot of a task's value before the task has produced it
Hole(task) == IF task.kind = "abstract" THEN Empty ELSE [kind |-> "hole"]

\* How a started task can settle: an abstract task fulfils with any value or
\* rejects; an inline task fulfils with the findings of one model answer.
TaskOutcomes(task) ==
  IF task.kind = "abstract"
  THEN {[ok |-> TRUE, val |-> v] : v \in Values} \cup {[ok |-> FALSE, val |-> "error"]}
  ELSE {[ok |-> TRUE, val |-> InlineResult(resp)] : resp \in ReviewResponses(task.patch)}

\* What a task embeds in the prompt it builds when it is invoked.
PromptOf(task) == IF task.kind = "abstract" THEN Empty ELSE InlinePrompt(task)

RemoveFrom(seq, x) == SelectSeq(seq, LAMBDA y : y # x)

\* MUTANT of MustWait: `>` for `>=`, one task too many is admitted
MustWaitOffByOne(activeLength, limit) == activeLength > limit

\* if (active.length >= limit) await Promise.race(active)
MustWait(activeLength, limit) == activeLength >= limit

\* MUTANT of StoreResult: results.push(value), the completion order
StoreResultPush(results, i, value) ==
  LET free == {j \in DOMAIN results : results[j] = Empty}
  IN IF free = {} THEN results
     ELSE [results EXCEPT ![CHOOSE j \in free : \A k \in free : j <= k] = value]

\* results[i] = await task()
StoreResult(results, i, value) == [results EXCEPT ![i] = value]

Running == {i \in DOMAIN lState : lState[i] = "running"}

\* The state right after pLimit(tasks, limit) was called: `results` allocated,
\* nothing started. The p-limit wrapper has queued every task and scheduled
\* one queue check per task.
LimFresh(impl, tasks, limit) ==
  [lImpl |-> impl,
   lLimit |-> limit,
   lTasks |-> tasks,
   lPc |-> IF impl = "loop" THEN "iter" ELSE "lib",
   lNext |-> 0,
   lState |-> [i \in DOMAIN tasks |-> "queued"],
   lActive |-> <<>>,
   lP |-> [i \in DOMAIN tasks |-> "none"],
   lWait |-> [set |-> {}, out |-> "none"],
   lKicks |-> IF impl = "loop" THEN 0 ELSE Len(tasks),
   lResults |-> [i \in DOMAIN tasks |-> Hole(tasks[i])],
   lReturned |-> [i \in DOMAIN tasks |-> Hole(tasks[i])],
   lCalls |-> [i \in DOMAIN tasks |-> 0],
   lOrder |-> <<>>,
   lPrompt |-> [i \in DOMAIN tasks |-> Hole(tasks[i])],
   lOut |-> "pending"]

\* pLimit(tasks, limit) was called before the first step
LimCalled(impl, tasks, limit) ==
  LET f == LimFresh(impl, tasks, limit)
  IN /\ lImpl = f.lImpl
     /\ lLimit = f.lLimit
     /\ lTasks = f.lTasks
     /\ lPc = f.lPc
     /\ lNext = f.lNext
     /\ lState = f.lState
     /\ lActive = f.lActive
     /\ lP = f.lP
     /\ lWait = f.lWait
     /\ lKicks = f.lKicks
     /\ lResults = f.lResults
     /\ lReturned = f.lReturned
     /\ lCalls = f.lCalls
     /\ lOrder = f.lOrder
     /\ lPrompt = f.lPrompt
     /\ lOut = f.lOut

\* pLimit(tasks, limit) is called in this step
LimCall(impl, tasks, limit) ==
  LET f == LimFresh(impl, tasks, limit)
  IN /\ lImpl' = f.lImpl
     /\ lLimit' = f.lLimit
     /\ lTasks' = f.lTasks
     /\ lPc' = f.lPc
     /\ lNext' = f.lNext
     /\ lState' = f.lState
     /\ lActive' = f.lActive
     /\ lP' = f.lP
     /\ lWait' = f.lWait
     /\ lKicks' = f.lKicks
     /\ lResults' = f.lResults
     /\ lReturned' = f.lReturned
     /\ lCalls' = f.lCalls
     /\ lOrder' = f.lOrder
     /\ lPrompt' = f.lPrompt
     /\ lOut' = f.lOut

LimIdle ==
  /\ lImpl = "none"
  /\ lLimit = 0
  /\ lTasks = <<>>
  /\ lPc = "idle"
  /\ lNext = 0
  /\ lState = <<>>
  /\ lActive = <<>>
  /\ lP = <<>>
  /\ lWait = [set |-> {}, out |-> "none"]
  /\ lKicks = 0
  /\ lResults = <<>>
  /\ lReturned = <<>>
  /\ lCalls = <<>>
  /\ lOrder = <<>>
  /\ lPrompt = <<>>
  /\ lOut = "pending"

\* no pure function is applied on its own
FnIdle ==
  /\ fPc = "idle"
  /\ fIn = Null
  /\ fOut = Null

\* withRetry was not called
RetryIdle ==
  /\ wPc = "idle"
  /\ wOpts = Null
  /\ wAttempt = 0
  /\ wCalls = <<>>
  /\ wSlept = <<>>
  /\ wOut = Null

\* run() was not called
RunIdle ==
  /\ rPc = "idle"
  /\ rEvent = Null
  /\ rConfig = Null
  /\ rDiff = <<>>
  /\ rFiles = <<>>
  /\ rPatches = <<>>
  /\ rGoal = [state |-> "pending"]
  /\ rGlobal = [state |-> "pending"]
  /\ rComments = <<>>
  /\ rBody = Null
  /\ rReviewCalls = <<>>
  /\ rIssueCalls = <<>>
  /\ rOutcome = "running"

\* runTask(i) / run(): the task function is invoked and takes a slot
Invoke(i) ==
  /\ lState' = [lState EXCEPT ![i] = "running"]
  /\ lCalls' = [lCalls EXCEPT ![i] = @ + 1]
  /\ lPrompt' = [lPrompt EXCEPT ![i] = PromptOf(lTasks[i])]
  /\ lActive' = Append(lActive, i)
  /\ lP' = [lP EXCEPT ![i] = "pending"]
  /\ lNext' = lNext + 1

\* one iteration of `for (let i = 0; i < tasks.length; i++)`, up to its await
LoopIter ==
  /\ lPc = "iter"
  /\ lNext < Len(lTasks)
  /\ Invoke(lNext + 1)
  /\ IF MustWait(Len(lActive) + 1, lLimit)
     THEN /\ lPc' = "race"
          /\ lWait' = [set |-> Range(lActive) \cup {lNext + 1}, out |-> "pending"]
     ELSE UNCHANGED <<lPc, lWait>>
  /\ UNCHANGED <<lImpl, lLimit, lTasks, lKicks, lResults, lReturned, lOrder, lOut>>

\* the loop is over: await Promise.all(active)
LoopEnd ==
  /\ lPc = "iter"
  /\ lNext = Len(lTasks)
  /\ lPc' = "all"
  /\ lWait' = [set |-> Range(lActive), out |-> "pending"]
  /\ UNCHANGED <<lImpl, lLimit, lTasks, lNext, lState, lActive, lP, lKicks,
                 lResults, lReturned, lCalls, lOrder, lPrompt, lOut>>

\* a running task's promise settles, while pLimit is suspended at an await
TaskSettle(i) ==
  /\ lPc # "iter"
  /\ i \in Running
  /\ \E o \in TaskOutcomes(lTasks[i]) :
       /\ lState' = [lState EXCEPT ![i] = IF o.ok THEN "fulfilled" ELSE "failed"]
       /\ lResults' = IF o.ok THEN StoreResult(lResults, i, o.val) ELSE lResults
       /\ lReturned' = IF o.ok THEN [lReturned EXCEPT ![i] = o.val] ELSE lReturned
  /\ lOrder' = Append(lOrder, i)
  /\ UNCHANGED <<lImpl, lLimit, lTasks, lPc, lNext, lActive, lP, lWait, lKicks,
                 lCalls, lPrompt, lOut>>

\* loop: the .finally() callback of a settled task removes p from active, and
\* p settles; a Promise.race that holds p settles with the first such p
LoopFinally(i) ==
  /\ lImpl = "loop"
  /\ lPc # "iter"
  /\ i \in DOMAIN lState
  /\ lState[i] \in {"fulfilled", "failed"}
  /\ lP[i] = "pending"
  /\ lActive' = RemoveFrom(lActive, i)
  /\ lP' = [lP EXCEPT ![i] = IF lState[i] = "fulfilled" THEN "ok" ELSE "err"]
  /\ lWait' = IF lPc = "race" /\ i \in lWait.set /\ lWait.out = "pending"
              THEN [lWait EXCEPT !.out = IF lState[i] = "fulfilled" THEN "ok" ELSE "err"]
              ELSE lWait
  /\ UNCHANGED <<lImpl, lLimit, lTasks, lPc, lNext, lState, lKicks, lResults,
                 lReturned, lCalls, lOrder, lPrompt, lOut>>

\* loop: `await Promise.race(active)` resumes, or throws out of pLimit
LoopRaceWake ==
  /\ lPc = "race"
  /\ lWait.out \in {"ok", "err"}
  /\ IF lWait.out = "ok"
     THEN lPc' = "iter" /\ lOut' = lOut
     ELSE lPc' = "rejected" /\ lOut' = [ok |-> FALSE, val |-> "error"]
  /\ lWait' = [set |-> {}, out |-> "none"]
  /\ UNCHANGED <<lImpl, lLimit, lTasks, lNext, lState, lActive, lP, lKicks,
                 lResults, lReturned, lCalls, lOrder, lPrompt>>

\* loop: `await Promise.all(active)` rejects with the first rejection, or
\* resumes once every promise it was called on is fulfilled: return results
LoopAllWake ==
  /\ lPc = "all"
  /\ IF \E i \in lWait.set : lP[i] = "err"
     THEN lPc' = "rejected" /\ lOut' = [ok |-> FALSE, val |-> "error"]
     ELSE /\ \A i \in lWait.set : lP[i] = "ok"
          /\ lPc' = "done"
          /\ lOut' = [ok |-> TRUE, val |-> lResults]
  /\ lWait' = [set |-> {}, out |-> "none"]
  /\ UNCHANGED <<lImpl, lLimit, lTasks, lNext, lState, lActive, lP, lKicks,
                 lResults, lReturned, lCalls, lOrder, lPrompt>>

\* lib: a queue check scheduled by limitFn(task) runs: it starts the next
\* queued task when a slot is free
LibKick ==
  /\ lImpl = "lib"
  /\ lKicks > 0
  /\ lKicks' = lKicks - 1
  /\ IF Len(lActive) < lLimit /\ lNext < Len(lTasks)
     THEN Invoke(lNext + 1)
     ELSE UNCHANGED <<lState, lCalls, lPrompt, lActive, lP, lNext>>
  /\ UNCHANGED <<lImpl, lLimit, lTasks, lPc, lWait, lResults, lReturned, lOrder, lOut>>

\* MUTANT of LibNext: the slot is released but the queue is not looked at
LibNextReleaseOnly(i) ==
  /\ lImpl = "lib"
  /\ i \in DOMAIN lState
  /\ lState[i] \in {"fulfilled", "failed"}
  /\ lP[i] = "pending"
  /\ lActive' = RemoveFrom(lActive, i)
  /\ lP' = [lP EXCEPT ![i] = IF lState[i] = "fulfilled" THEN "ok" ELSE "err"]
  /\ UNCHANGED <<lState, lCalls, lPrompt, lNext>>
  /\ UNCHANGED <<lImpl, lLimit, lTasks, lPc, lWait, lKicks, lResults, lReturned,
                 lOrder, lOut>>

\* lib: next() after a task settled: its slot is released and the next queued
\* task, if any, is started at once
LibNext(i) ==
  /\ lImpl = "lib"
  /\ i \in DOMAIN lState
  /\ lState[i] \in {"fulfilled", "failed"}
  /\ lP[i] = "pending"
  /\ IF lNext < Len(lTasks)
     THEN /\ lState' = [lState EXCEPT ![lNext + 1] = "running"]
          /\ lCalls' = [lCalls EXCEPT ![lNext + 1] = @ + 1]
          /\ lPrompt' = [lPrompt EXCEPT ![lNext + 1] = PromptOf(lTasks[lNext + 1])]
          /\ lActive' = Append(RemoveFrom(lActive, i), lNext + 1)
          /\ lP' = [lP EXCEPT ![i] = IF lState[i] = "fulfilled" THEN "ok" ELSE "err",
                              ![lNext + 1] = "pending"]
          /\ lNext' = lNext + 1
     ELSE /\ lActive' = RemoveFrom(lActive, i)
          /\ lP' = [lP EXCEPT ![i] = IF lState[i] = "fulfilled" THEN "ok" ELSE "err"]
          /\ UNCHANGED <<lState, lCalls, lPrompt, lNext>>
  /\ UNCHANGED <<lImpl, lLimit, lTasks, lPc, lWait, lKicks, lResults, lReturned,
                 lOrder, lOut>>

\* lib: Promise.all over the limited tasks rejects with the first rejection,
\* or fulfils with every task's value in task order
LibAllWake ==
  /\ lPc = "lib"
  /\ IF \E i \in DOMAIN lState : lState[i] = "failed"
     THEN lPc' = "rejected" /\ lOut' = [ok |-> FALSE, val |-> "error"]
     ELSE /\ \A i \in DOMAIN lState : lState[i] = "fulfilled"
          /\ lPc' = "done"
          /\ lOut' = [ok |-> TRUE, val |-> lResults]
  /\ UNCHANGED <<lImpl, lLimit, lTasks, lNext, lState, lActive, lP, lWait, lKicks,
                 lResults, lReturned, lCalls, lOrder, lPrompt>>

-----------------------------------------------------------------------------
(* The diff functions applied to every bounded input *)

NoPatch == [lines |-> <<>>, lineMeta |-> EmptyMap, hunkPositions |-> EmptyMap]

DiffInit ==
  /\ dPc = "input"
  /\ dFile \in Files
  /\ dOptions \in Options
  /\ dPatch = NoPatch
  /\ dQuery = Null
  /\ dAdjust = Null
  /\ dStart = Null
  /\ dEnd = Null

DiffIdle ==
  /\ dPc = "idle"
  /\ dFile = Null
  /\ dOptions = Null
  /\ dPatch = NoPatch
  /\ dQuery = Null
  /\ dAdjust = Null
  /\ dStart = Null
  /\ dEnd = Null

Build ==
  /\ dPc = "input"
  /\ dPatch' = buildNumberedPatch(dFile, dOptions)
  /\ dPc' = "built"
  /\ UNCHANGED <<dFile, dOptions, dQuery, dAdjust, dStart, dEnd>>
  /\ UNCHANGED <<limVars, runVars, fnVars, retryVars>>

\* the model may name any line number: 0, a rendered one, one past the end
Resolve ==
  /\ dPc = "built"
  /\ \E p \in 0..(Len(dPatch.lines) + 1) :
       /\ dQuery' = p
       /\ dAdjust' = adjustToReviewablePosition(p, dPatch.lineMeta, dPatch.hunkPositions)
       /\ dStart' = resolveCommentPosition(p, dPatch.lineMeta, dPatch.hunkPositions)
       /\ dEnd' = resolveEndPosition(p, dPatch.lineMeta, dPatch.hunkPositions)
  /\ dPc' = "resolved"
  /\ UNCHANGED <<dFile, dOptions, dPatch>>
  /\ UNCHANGED <<limVars, runVars, fnVars, retryVars>>

DiffNext == Build \/ Resolve

DiffSpecInit ==
  /\ RunIdle
  /\ FnIdle
  /\ RetryIdle
  /\ LimIdle
  /\ DiffInit

SpecDiff == DiffSpecInit /\ [][DiffNext]_vars

-----------------------------------------------------------------------------
(* pLimit on its own: any number of tasks, any limit, any settling order *)

LimitInit ==
  /\ DiffIdle
  /\ RunIdle
  /\ FnIdle
  /\ RetryIdle
  /\ \E impl \in {"loop", "lib"}, n \in 0..MaxTasks, limit \in 1..MaxLimit :
       LimCalled(impl, [i \in 1..n |-> AbstractTask], limit)

LimitNext ==
  \/ LoopIter /\ UNCHANGED <<diffVars, runVars, fnVars, retryVars>>
  \/ LoopEnd /\ UNCHANGED <<diffVars, runVars, fnVars, retryVars>>
  \/ \E i \in 1..MaxTasks : TaskSettle(i) /\ UNCHANGED <<diffVars, runVars, fnVars, retryVars>>
  \/ \E i \in 1..MaxTasks : LoopFinally(i) /\ UNCHANGED <<diffVars, runVars, fnVars, retryVars>>
  \/ LoopRaceWake /\ UNCHANGED <<diffVars, runVars, fnVars, retryVars>>
  \/ LoopAllWake /\ UNCHANGED <<diffVars, runVars, fnVars, retryVars>>
  \/ LibKick /\ UNCHANGED <<diffVars, runVars, fnVars, retryVars>>
  \/ \E i \in 1..MaxTasks : LibNext(i) /\ UNCHANGED <<diffVars, runVars, fnVars, retryVars>>
  \/ LibAllWake /\ UNCHANGED <<diffVars, runVars, fnVars, retryVars>>

SpecLimit == LimitInit /\ [][LimitNext]_vars

-----------------------------------------------------------------------------
(* run(): the review pipeline (index.ts) *)

\* the diffs of the pull requests tried: test/prompt.test.ts's one-hunk file
\* (a line replaced by two), and a two-hunk markdown file
FileA == MkFile("src/a.ts", << <<"del", "add", "add">> >>)
FileB == MkFile("docs/b.md", << <<"add", "del", "del", "add">>, <<"add", "nonl">> >>)
RunDiffs == {<<>>, <<FileA>>, <<FileB, FileA>>}

\* makeConfig() of the integration tests, and variations of it
BaseConfig ==
  [includePatterns |-> <<>>, excludePatterns |-> <<>>, maxFiles |-> 2,
   maxHunksPerFile |-> 2, maxLinesPerHunk |-> 4, globalReview |-> TRUE]
RunConfigs ==
  {BaseConfig,
   [BaseConfig EXCEPT !.globalReview = FALSE],
   [BaseConfig EXCEPT !.excludePatterns = <<"*.md">>],
   [BaseConfig EXCEPT !.includePatterns = <<"*.md">>, !.excludePatterns = <<"docs/**">>],
   [BaseConfig EXCEPT !.maxFiles = 1, !.maxHunksPerFile = 1, !.maxLinesPerHunk = 2]}

Events == {[isPullRequest |-> TRUE, hasTrigger |-> TRUE],
           [isPullRequest |-> FALSE, hasTrigger |-> TRUE],
           [isPullRequest |-> TRUE, hasTrigger |-> FALSE]}

\* MUTANT of TriggerMatched: a comment with the trigger on a plain issue counts
TriggerMatchedAnyComment(event) == event.hasTrigger

\* the event is a comment on a pull request and its body holds the trigger
TriggerMatched(event) == event.isPullRequest /\ event.hasTrigger

\* final HTTP status of a hosting-API call, once its retries are over
Statuses == {201, 503}

\* MUTANT of ResponseOk: every response counts as a success
ResponseOkAny(status) == TRUE

\* fetch's response.ok
ResponseOk(status) == status >= 200 /\ status <= 299

\* how the goal statement is resolved from the model's answer
ResolveGoal(resp) ==
  IF resp.kind = "rejected" THEN [state |-> "failed", goal |-> "", context |-> ""]
  ELSE LET g == parsePRGoal(resp)
       IN [state |-> IF resp.kind = "json" THEN "ok" ELSE "unparsed",
           goal |-> g.goal, context |-> g.context]

\* how the global summary is resolved from the model's answer
ResolveGlobal(resp) ==
  IF resp.kind = "rejected" THEN [state |-> "failed", summary |-> "", findings |-> <<>>]
  ELSE LET g == parseGlobalReview(resp)
       IN [state |-> IF resp.kind = "json" THEN "ok" ELSE "unparsed",
           summary |-> g.summary, findings |-> g.findings]

Pending == [state |-> "pending"]

\* MUTANT of InlineReady: the inline pass does not wait for the global pass
InlineReadyEarly(pc) == pc \in {"GlobalPass", "InlinePass"}

\* the inline pass starts once the goal and the global pass are resolved
InlineReady(pc) == pc = "InlinePass"

\* MUTANT of CommentsOfFinding: the end line is ignored
CommentsOfFindingSingleLine(path, patch, f) ==
  LET start == resolveCommentPosition(f.lineNumber, patch.lineMeta, patch.hunkPositions)
      body == [badge |-> f.priority, text |-> f.reviewComment]
  IN IF start = Null THEN <<>>
     ELSE <<[path |-> path, body |-> body, line |-> start, side |-> "RIGHT",
             start_line |-> Null, start_side |-> "none"]>>

\* The comment of one finding, or nothing when its start cannot be anchored.
\* A valid end whose anchor differs from the start makes a multi-line comment.
CommentsOfFinding(path, patch, f) ==
  LET start == resolveCommentPosition(f.lineNumber, patch.lineMeta, patch.hunkPositions)
      end == IF f.endLineNumber = Null THEN Null
             ELSE resolveEndPosition(f.endLineNumber, patch.lineMeta, patch.hunkPositions)
      body == [badge |-> f.priority, text |-> f.reviewComment]
  IN IF start = Null THEN <<>>
     ELSE IF end # Null /\ end # start
     THEN <<[path |-> path, body |-> body, line |-> end, side |-> "RIGHT",
             start_line |-> start, start_side |-> "RIGHT"]>>
     ELSE <<[path |-> path, body |-> body, line |-> start, side |-> "RIGHT",
             start_line |-> Null, start_side |-> "none"]>>

RECURSIVE CommentsOfFile(_, _, _, _)
CommentsOfFile(path, patch, reviews, k) ==
  IF k > Len(reviews) THEN <<>>
  ELSE CommentsOfFinding(path, patch, reviews[k])
         \o CommentsOfFile(path, patch, reviews, k + 1)

RECURSIVE CommentsOfFiles(_, _, _, _)
CommentsOfFiles(files, patches, results, k) ==
  IF k > Len(files) THEN <<>>
  ELSE CommentsOfFile(files[k].path, patches[k], results[k].reviews, 1)
         \o CommentsOfFiles(files, patches, results, k + 1)

\* MUTANT of Dedup: every comment is kept
DedupKeepAll(comments, acc) == acc \o comments

\* comments that collide on path, lines and body are kept once
RECURSIVE Dedup(_, _)
Dedup(comments, acc) ==
  IF comments = <<>> THEN acc
  ELSE IF \E j \in DOMAIN acc : acc[j] = Head(comments)
  THEN Dedup(Tail(comments), acc)
  ELSE Dedup(Tail(comments), Append(acc, Head(comments)))

\* the ceiling on the number of comments of one review
MaxComments == 100

\* at most MaxComments comments, the lowest priorities dropped first
CapComments(comments) ==
  IF Len(comments) <= MaxComments THEN comments
  ELSE SliceTo(SelectSeq(comments, LAMBDA c : c.body.badge = "high")
                 \o SelectSeq(comments, LAMBDA c : c.body.badge = "medium")
                 \o SelectSeq(comments, LAMBDA c : c.body.badge = "low"),
               MaxComments)

Aggregated(files, patches, results) ==
  CapComments(Dedup(CommentsOfFiles(files, patches, results, 1), <<>>))

\* the summary text: the global summary and the number of comments
SummaryBody(global, comments) ==
  [title |-> "Gemini PR Review", summary |-> global.summary,
   findings |-> global.findings, total |-> Len(comments)]

\* MUTANT of NeedsFallback: a failed createReview ends the run
NeedsFallbackNever(status) == FALSE

\* the plain comment is posted when createReview threw
NeedsFallback(status) == ~ResponseOk(status)

\* MUTANT of PublishOutcome: a failed fallback is raised to the caller
PublishOutcomeRaise(status) == IF ResponseOk(status) THEN "returned" ELSE "threw"

\* what run() does once the fallback call is over: it returns
PublishOutcome(status) == "returned"

RunInit ==
  /\ DiffIdle
  /\ LimIdle
  /\ FnIdle
  /\ RetryIdle
  /\ rPc = "TriggerCheck"
  /\ rEvent \in Events
  /\ rConfig \in RunConfigs
  /\ rDiff \in RunDiffs
  /\ rFiles = <<>>
  /\ rPatches = <<>>
  /\ rGoal = Pending
  /\ rGlobal = Pending
  /\ rComments = <<>>
  /\ rBody = Null
  /\ rReviewCalls = <<>>
  /\ rIssueCalls = <<>>
  /\ rOutcome = "running"

\* 1. the event is a pull-request comment that holds the trigger, or the run
\* is skipped
TriggerCheck ==
  /\ rPc = "TriggerCheck"
  /\ IF TriggerMatched(rEvent)
     THEN rPc' = "FetchContext" /\ rOutcome' = rOutcome
     ELSE rPc' = "Skipped" /\ rOutcome' = "returned"
  /\ UNCHANGED <<rEvent, rConfig, rDiff, rFiles, rPatches, rGoal, rGlobal, rComments,
                 rBody, rReviewCalls, rIssueCalls>>
  /\ UNCHANGED <<diffVars, limVars, fnVars, retryVars>>

\* 2. the pull request and its diff are fetched and filtered, and the model is
\* asked for the goal. An unreachable platform and an empty diff end the run;
\* a diff of which no file passes the filter may or may not.
FetchContext ==
  /\ rPc = "FetchContext"
  /\ LET files == filterDiffFiles(rDiff, rConfig)
     IN \/ /\ rPc' = "Failed"
           /\ rOutcome' = "threw"
           /\ UNCHANGED <<rFiles, rGoal>>
        \/ /\ rDiff = <<>>
           /\ rPc' = "EmptyDiff"
           /\ rOutcome' = "threw"
           /\ UNCHANGED <<rFiles, rGoal>>
        \/ /\ rDiff # <<>>
           /\ \E resp \in GoalResponses : rGoal' = ResolveGoal(resp)
           /\ rFiles' = files
           /\ IF files = <<>>
              THEN \/ rPc' = "EmptyDiff" /\ rOutcome' = "threw"
                   \/ rPc' = "GlobalPass" /\ rOutcome' = rOutcome
              ELSE rPc' = "GlobalPass" /\ rOutcome' = rOutcome
  /\ UNCHANGED <<rEvent, rConfig, rDiff, rPatches, rGlobal, rComments, rBody,
                 rReviewCalls, rIssueCalls>>
  /\ UNCHANGED <<diffVars, limVars, fnVars, retryVars>>

\* 3. the global pass, unless the configuration turns it off
GlobalPass ==
  /\ rPc = "GlobalPass"
  /\ IF rConfig.globalReview
     THEN \E resp \in GlobalResponses : rGlobal' = ResolveGlobal(resp)
     ELSE rGlobal' = [state |-> "disabled", summary |-> "", findings |-> <<>>]
  /\ rPc' = "InlinePass"
  /\ UNCHANGED <<rEvent, rConfig, rDiff, rFiles, rPatches, rGoal, rComments, rBody,
                 rReviewCalls, rIssueCalls, rOutcome>>
  /\ UNCHANGED <<diffVars, limVars, fnVars, retryVars>>

\* 4. every filtered file is numbered and its task handed to pLimit
InlineStart ==
  /\ InlineReady(rPc)
  /\ lPc = "idle"
  /\ LET patches == [k \in DOMAIN rFiles |-> buildNumberedPatch(rFiles[k], rConfig)]
         summary == IF rGlobal.state = "pending" THEN "" ELSE rGlobal.summary
         tasks == [k \in DOMAIN rFiles |->
                     InlineTask(rFiles[k], patches[k], rGoal.goal, summary)]
     IN /\ rPatches' = patches
        /\ \E limit \in 1..MaxInline : LimCall("lib", tasks, limit)
  /\ rPc' = "InlineWait"
  /\ UNCHANGED <<rEvent, rConfig, rDiff, rFiles, rGoal, rGlobal, rComments, rBody,
                 rReviewCalls, rIssueCalls, rOutcome>>
  /\ UNCHANGED <<diffVars, fnVars, retryVars>>

\* 5. pLimit settled: the findings of all files become the comments
Aggregate ==
  /\ rPc = "InlineWait"
  /\ lPc \in {"done", "rejected"}
  /\ IF lPc = "rejected"
     THEN /\ rPc' = "Failed"
          /\ rOutcome' = "threw"
          /\ UNCHANGED <<rComments, rBody>>
     ELSE LET comments == Aggregated(rFiles, rPatches, lOut.val)
          IN /\ rComments' = comments
             /\ rBody' = SummaryBody(rGlobal, comments)
             /\ rPc' = "Publish"
             /\ rOutcome' = rOutcome
  /\ UNCHANGED <<rEvent, rConfig, rDiff, rFiles, rPatches, rGoal, rGlobal,
                 rReviewCalls, rIssueCalls>>
  /\ UNCHANGED <<diffVars, limVars, fnVars, retryVars>>

\* 6. createReview(pr, token, body, comments)
Publish ==
  /\ rPc = "Publish"
  /\ \E status \in Statuses :
       /\ rReviewCalls' = Append(rReviewCalls, [body |-> rBody, comments |-> rComments,
                                                status |-> status])
       /\ IF NeedsFallback(status)
          THEN rPc' = "Fallback" /\ rOutcome' = rOutcome
          ELSE rPc' = "Done" /\ rOutcome' = "returned"
  /\ UNCHANGED <<rEvent, rConfig, rDiff, rFiles, rPatches, rGoal, rGlobal, rComments,
                 rBody, rIssueCalls>>
  /\ UNCHANGED <<diffVars, limVars, fnVars, retryVars>>

\* 6. createReview threw: postIssueComment(pr, token, body), whose own failure
\* is not raised
Fallback ==
  /\ rPc = "Fallback"
  /\ \E status \in Statuses :
       /\ rIssueCalls' = Append(rIssueCalls, [body |-> rBody, status |-> status])
       /\ rOutcome' = PublishOutcome(status)
  /\ rPc' = "Done"
  /\ UNCHANGED <<rEvent, rConfig, rDiff, rFiles, rPatches, rGoal, rGlobal, rComments,
                 rBody, rReviewCalls>>
  /\ UNCHANGED <<diffVars, limVars, fnVars, retryVars>>

Next ==
  \/ TriggerCheck
  \/ FetchContext
  \/ GlobalPass
  \/ InlineStart
  \/ LibKick /\ UNCHANGED <<diffVars, runVars, fnVars, retryVars>>
  \/ \E i \in 1..MaxTasks : TaskSettle(i) /\ UNCHANGED <<diffVars, runVars, fnVars, retryVars>>
  \/ \E i \in 1..MaxTasks : LibNext(i) /\ UNCHANGED <<diffVars, runVars, fnVars, retryVars>>
  \/ LibAllWake /\ UNCHANGED <<diffVars, runVars, fnVars, retryVars>>
  \/ Aggregate
  \/ Publish
  \/ Fallback

Spec == RunInit /\ [][Next]_vars

\* the step InlineStart takes, as far as rPc shows it
InlineStarted ==
  /\ InlineReady(rPc)
  /\ lPc = "idle"
  /\ rPc' = "InlineWait"

\* run() is one async function and the limiter runs on the same event loop:
\* each await settles (a model or hosting call ends in a value or an error
\* once its retries are over) and the loop then runs the continuation, so a
\* step that stays possible is eventually taken
Fairness ==
  /\ WF_rPc(TriggerCheck)
  /\ WF_rPc(FetchContext)
  /\ WF_rPc(GlobalPass)
  /\ WF_rPc(InlineStarted)
  /\ WF_lKicks(LibKick)
  /\ WF_lOrder(\E i \in 1..MaxTasks : TaskSettle(i))
  /\ WF_lP(\E i \in 1..MaxTasks : LibNext(i))
  /\ WF_lPc(LibAllWake)
  /\ WF_rPc(Aggregate)
  /\ WF_rPc(Publish)
  /\ WF_rPc(Fallback)

\* the runs checked for liveness: every event and diff, with the global pass
\* turned off, with filters that leave no file, and with the tightest caps
FairConfigs ==
  {[BaseConfig EXCEPT !.globalReview = FALSE],
   [BaseConfig EXCEPT !.includePatterns = <<"*.md">>, !.excludePatterns = <<"docs/**">>],
   [BaseConfig EXCEPT !.maxFiles = 1, !.maxHunksPerFile = 1, !.maxLinesPerHunk = 2]}

FairInit ==
  /\ RunInit
  /\ rConfig \in FairConfigs

FairSpec == FairInit /\ [][Next]_vars /\ Fairness

-----------------------------------------------------------------------------
(* isRetryableError and withRetry (retry.ts) *)

\* a thrown value: whether it is an Error, its message as the sequence of
\* text fragments it is made of, and its status property (Null: it has none)
Err(isError, message, status) ==
  [isError |-> isError, message |-> message, status |-> status]

\* String.prototype.includes: needle occurs as a contiguous run of msg
includes(msg, needle) ==
  \E i \in 1..(Len(msg) - Len(needle) + 1) :
    SubSeq(msg, i, i + Len(needle) - 1) = needle

\* the substrings isRetryableError looks for in the lower-cased message
NetworkNeedles ==
  { <<"fetch", "failed">>, <<"econnreset">>, <<"etimedout">>, <<"network">>,
    <<"socket", "hang", "up">> }

isRetryableError(error) ==
  IF error.isError
  THEN LET msg == [i \in 1..Len(error.message) |-> toLowerCase(error.message[i])]
       IN IF \E needle \in NetworkNeedles : includes(msg, needle)
          THEN TRUE
          ELSE IF error.status # Null
               THEN error.status = 429 \/ error.status >= 500
               ELSE FALSE
  ELSE FALSE

\* the errors fn rejects with: 503 and 429 responses, a failed fetch, a 404
\* response, and a thrown string
E503 == Err(TRUE, <<"Service", "Unavailable">>, 503)
E429 == Err(TRUE, <<"Too", "Many", "Requests">>, 429)
EFetch == Err(TRUE, <<"fetch", "failed">>, Null)
E404 == Err(TRUE, <<"Not", "Found">>, 404)
EString == Err(FALSE, <<"string", "error">>, Null)
FnErrors == {E503, E429, EFetch, E404, EString}

\* how one call of fn settles
NoError == Err(FALSE, <<>>, Null)
Fulfilled(value) == [ok |-> TRUE, value |-> value, error |-> NoError]
RejectedWith(error) == [ok |-> FALSE, value |-> "", error |-> error]
FnOutcomes == {Fulfilled("ok")} \cup {RejectedWith(e) : e \in FnErrors}

\* const opts = { ...DEFAULT_OPTIONS, ...options }, for the options given
\* maxAttempts is taken as given: nothing checks it, so 0 and -1 are tried
\* beside the usual counts
RetryOptions ==
  [maxAttempts : (-1)..MaxAttempts, initialDelayMs : {4, 8},
   backoffFactor : {2}, maxDelayMs : {8, 12}]

RECURSIVE Pow(_, _)
Pow(b, e) == IF e = 0 THEN 1 ELSE b * Pow(b, e - 1)

\* MUTANT of baseDelay: Math.min is dropped, the delay is never capped
baseDelayUncapped(opts, attempt) ==
  opts.initialDelayMs * Pow(opts.backoffFactor, attempt - 1)

\* Math.min(opts.initialDelayMs * opts.backoffFactor ** (attempt - 1), opts.maxDelayMs)
baseDelay(opts, attempt) ==
  Min(opts.initialDelayMs * Pow(opts.backoffFactor, attempt - 1), opts.maxDelayMs)

\* baseDelay * Math.random() * 0.25, Math.random() in [0, 1): the whole
\* milliseconds of that interval
Jitters(base) == {j \in 0..base : 4 * j < base}

\* MUTANT of GiveUp: the attempts run out one call later
GiveUpOneLate(opts, attempt, error) ==
  ~isRetryableError(error) \/ attempt = opts.maxAttempts + 1

\* MUTANT of GiveUp: only the last attempt's error is thrown
GiveUpOnlyAtLast(opts, attempt, error) ==
  attempt = opts.maxAttempts

\* if (!isRetryableError(error) || attempt === opts.maxAttempts) throw error
GiveUp(opts, attempt, error) ==
  ~isRetryableError(error) \/ attempt = opts.maxAttempts

\* withRetry(fn, label, options) is called
RetryInit ==
  /\ DiffIdle
  /\ LimIdle
  /\ RunIdle
  /\ FnIdle
  /\ wPc = "call"
  /\ wOpts \in RetryOptions
  /\ wAttempt = 1
  /\ wCalls = <<>>
  /\ wSlept = <<>>
  /\ wOut = Null

\* one pass of the loop up to its await: fn is called and settles; its value
\* is returned, or its error is thrown, or the delay is computed and slept
RetryCall ==
  /\ wPc = "call"
  /\ \E outcome \in FnOutcomes :
       /\ wCalls' = Append(wCalls, outcome)
       /\ IF outcome.ok
          THEN /\ wPc' = "returned"
               /\ wOut' = outcome
               /\ wSlept' = wSlept
          ELSE IF GiveUp(wOpts, wAttempt, outcome.error)
          THEN /\ wPc' = "threw"
               /\ wOut' = outcome
               /\ wSlept' = wSlept
          ELSE \E jitter \in Jitters(baseDelay(wOpts, wAttempt)) :
                 /\ wPc' = "sleep"
                 /\ wOut' = wOut
                 /\ wSlept' = Append(wSlept, baseDelay(wOpts, wAttempt) + jitter)
  /\ UNCHANGED <<wOpts, wAttempt>>
  /\ UNCHANGED <<diffVars, limVars, runVars, fnVars>>

\* the sleep is over: attempt++ and the loop goes round (followed for
\* MaxRounds passes)
RetryWake ==
  /\ wPc = "sleep"
  /\ wAttempt < MaxRounds
  /\ wPc' = "call"
  /\ wAttempt' = wAttempt + 1
  /\ UNCHANGED <<wOpts, wCalls, wSlept, wOut>>
  /\ UNCHANGED <<diffVars, limVars, runVars, fnVars>>

RetryNext ==
  \/ RetryCall
  \/ RetryWake

SpecRetry == RetryInit /\ [][RetryNext]_vars

-----------------------------------------------------------------------------
(* The pure functions applied to every bounded input *)

\* error messages: those of the tests, near misses of the network substrings,
\* and requestJson's message with a response body that mentions the network
ErrorMessages ==
  { <<"Service", "Unavailable">>, <<"Not", "Found">>, <<"fetch", "failed">>,
    <<"read", "ECONNRESET">>, <<"connect", "ETIMEDOUT">>,
    <<"Network", "error">>, <<"socket", "hang", "up">>,
    <<"Something", "went", "wrong">>, <<"socket", "hang">>,
    <<"failed", "fetch">>,
    <<"GitHub", "API", "error", ":", "network", "policy">> }

\* the status property of a thrown value: absent, or an HTTP status
StatusCodes == {Null, 400, 401, 403, 404, 422, 429, 500, 502, 503, 504}

\* the values isRetryableError is called with
ErrorInputs ==
  { [fn |-> "isRetryableError", error |-> Err(isError, message, status)] :
      isError \in BOOLEAN, message \in ErrorMessages, status \in StatusCodes }

\* the paths of filter.test.ts in kind: a source file, a nested document and a
\* top-level document
FilterPaths == {"src/a.ts", "docs/b.md", "README.md"}

\* every list of distinct files over those paths
FilterFileLists ==
  { files \in UNION {[1..n -> {[path |-> p, hunks |-> <<>>] : p \in FilterPaths}] :
                       n \in 0..Cardinality(FilterPaths)} :
      \A i, j \in DOMAIN files : files[i] = files[j] => i = j }

\* the arguments filterDiffFiles is called with
FilterInputs ==
  { [fn |-> "filterDiffFiles", files |-> files,
     options |-> [includePatterns |-> inc, excludePatterns |-> exc,
                  maxFiles |-> maxFiles]] :
      files \in FilterFileLists,
      inc \in {<<>>, <<"*.ts">>, <<"src/**", "*.md">>},
      exc \in {<<>>, <<"*.md">>, <<"src/**", "docs/**">>},
      maxFiles \in 0..MaxFiles }

\* priority values as the model may spell them, or leave them out
PriorityValues ==
  {"critical", "CRITICAL", "Critical", "high", "HIGH", "High", "medium",
   "MEDIUM", "Medium", "low", "LOW", "Low", "Urgent", "urgent", "info", "",
   Undefined}

PriorityInputs ==
  { [fn |-> "normalizePriority", value |-> value] : value \in PriorityValues }

\* response texts: not JSON, JSON without a reviews array, one item of any
\* priority with a valid or invalid line and comment, two valid items
ParseInputs ==
  { [fn |-> "parseReviews", text |-> text] :
      text \in {NotJson, JsonText([isArray |-> FALSE, reviews |-> <<>>])}
        \cup { JsonText([isArray |-> TRUE,
                         reviews |-> <<[lineNumber |-> n, endLineNumber |-> Null,
                                        reviewComment |-> c, priority |-> v]>>]) :
                 n \in {0, 1}, c \in {"", "test"}, v \in PriorityValues }
        \cup { JsonText([isArray |-> TRUE,
                         reviews |-> <<[lineNumber |-> 1, endLineNumber |-> Null,
                                        reviewComment |-> "test", priority |-> v],
                                       [lineNumber |-> 2, endLineNumber |-> 3,
                                        reviewComment |-> "test", priority |-> w]>>]) :
                 v \in PriorityValues, w \in PriorityValues } }

\* answers to the goal prompt: not JSON, and JSON objects that hold, lack or
\* mistype the goal and the context
GoalInputs ==
  { [fn |-> "parsePRGoal", text |-> text] :
      text \in {NotJson, JsonText([other |-> "x"])}
        \cup { JsonText([goal |-> g, context |-> c]) :
                 g \in {"G", "", NotAString}, c \in {"C", NotAString} }
        \cup { JsonText([goal |-> "G"]), JsonText([context |-> "C"]) } }

\* answers to the global prompt: not JSON, and JSON objects that hold or lack
\* the summary and the findings, under either name
GlobalInputs ==
  { [fn |-> "parseGlobalReview", text |-> text] :
      text \in {NotJson, JsonText([other |-> "x"]),
                JsonText([summary |-> "S"]),
                JsonText([summary |-> NotAString, findings |-> <<"F">>]),
                JsonText([findings |-> <<"F", "">>]),
                JsonText([crossFileFindings |-> <<"F">>]),
                JsonText([summary |-> "S", findings |-> <<"F", "">>])} }

\* extractJson over a text given as its sequence of tokens: an opening
\* fence with or without the json tag, a closing fence, a brace, white
\* space ("\n"), or a run of other text
extractJson(text) ==
  LET trim(t) ==
        LET solid == {i \in 1..Len(t) : t[i] # "\n"}
        IN IF solid = {} THEN <<>>
           ELSE SubSeq(t, CHOOSE i \in solid : \A j \in solid : i <= j,
                          CHOOSE i \in solid : \A j \in solid : i >= j)
      trimmed == trim(text)
      opened == IF trimmed # <<>> /\ trimmed[1] \in {"<fence>json", "<fence>"}
                THEN Tail(trimmed) ELSE trimmed
      closed == IF opened # <<>> /\ opened[Len(opened)] = "<fence>"
                THEN SubSeq(opened, 1, Len(opened) - 1) ELSE opened
      cleaned == trim(closed)
      opens == {i \in 1..Len(cleaned) : cleaned[i] = "{"}
      closes == {i \in 1..Len(cleaned) : cleaned[i] = "}"}
      start == IF opens = {} THEN -1 ELSE CHOOSE i \in opens : \A j \in opens : i <= j
      end == IF closes = {} THEN -1 ELSE CHOOSE i \in closes : \A j \in closes : i >= j
  IN IF cleaned # <<>> /\ cleaned[1] = "{" THEN cleaned
     ELSE IF start # -1 /\ end # -1 /\ end > start THEN SubSeq(cleaned, start, end)
     ELSE cleaned

\* the JSON objects of the responses: the foo-bar object of the tests
\* and an object holding another
FlatObject == <<"{", "\"foo\": \"bar\"", "}">>
NestedObject == <<"{", "\"reviews\": [", "{", "\"lineNumber\": 10", "}", "]", "}">>

\* responses wrapping one object: optional prose before, optional fence,
\* optional prose (or a second object) after
ExtractInputs ==
  { [fn |-> "extractJson", obj |-> obj,
     text |-> pre \o fence[1] \o obj \o fence[2] \o post] :
      obj \in {FlatObject, NestedObject},
      pre \in {<<>>, <<"\n">>, <<"Here is the json:", "\n">>},
      fence \in {<< <<>>, <<>> >>,
                 << <<"<fence>json", "\n">>, <<"\n", "<fence>">> >>,
                 << <<"<fence>", "\n">>, <<"\n", "<fence>">> >>},
      post \in {<<>>, <<"\n">>, <<"\n", "Hope that helps.">>,
                <<"\n", "{", "\"note\": 1", "}">>} }

\* the arguments buildGlobalDiff is called with: the diffs of the runs in
\* either file order, every pair of caps, every budget from -1 up
GlobalDiffInputs ==
  { [fn |-> "buildGlobalDiff", files |-> files,
     options |-> [maxHunksPerFile |-> maxHunks, maxLinesPerHunk |-> maxLines],
     maxLines |-> budget] :
      files \in {<<>>, <<FileA>>, <<FileB, FileA>>, <<FileA, FileB>>},
      maxHunks \in 1..MaxCap, maxLines \in 1..MaxBody,
      budget \in (-1)..MaxGlobalLines }

FnInputs ==
  ErrorInputs \cup FilterInputs \cup PriorityInputs \cup ParseInputs
    \cup GoalInputs \cup GlobalInputs \cup GlobalDiffInputs \cup ExtractInputs

\* a function is about to be called with one of the inputs
FnInit ==
  /\ DiffIdle
  /\ LimIdle
  /\ RunIdle
  /\ RetryIdle
  /\ fPc = "input"
  /\ fIn \in FnInputs
  /\ fOut = Null

\* isRetryableError(error)
ClassifyError ==
  /\ fPc = "input"
  /\ fIn.fn = "isRetryableError"
  /\ fPc' = "applied"
  /\ fOut' = isRetryableError(fIn.error)
  /\ UNCHANGED fIn
  /\ UNCHANGED <<diffVars, limVars, runVars, retryVars>>

\* filterDiffFiles(files, options)
Filter ==
  /\ fPc = "input"
  /\ fIn.fn = "filterDiffFiles"
  /\ fPc' = "applied"
  /\ fOut' = filterDiffFiles(fIn.files, fIn.options)
  /\ UNCHANGED fIn
  /\ UNCHANGED <<diffVars, limVars, runVars, retryVars>>

\* normalizePriority(value)
Normalize ==
  /\ fPc = "input"
  /\ fIn.fn = "normalizePriority"
  /\ fPc' = "applied"
  /\ fOut' = normalizePriority(fIn.value)
  /\ UNCHANGED fIn
  /\ UNCHANGED <<diffVars, limVars, runVars, retryVars>>

\* parseReviews(text)
Parse ==
  /\ fPc = "input"
  /\ fIn.fn = "parseReviews"
  /\ fPc' = "applied"
  /\ fOut' = parseReviews(fIn.text)
  /\ UNCHANGED fIn
  /\ UNCHANGED <<diffVars, limVars, runVars, retryVars>>

\* parsePRGoal(text)
ParseGoal ==
  /\ fPc = "input"
  /\ fIn.fn = "parsePRGoal"
  /\ fPc' = "applied"
  /\ fOut' = parsePRGoal(fIn.text)
  /\ UNCHANGED fIn
  /\ UNCHANGED <<diffVars, limVars, runVars, retryVars>>

\* parseGlobalReview(text)
ParseGlobal ==
  /\ fPc = "input"
  /\ fIn.fn = "parseGlobalReview"
  /\ fPc' = "applied"
  /\ fOut' = parseGlobalReview(fIn.text)
  /\ UNCHANGED fIn
  /\ UNCHANGED <<diffVars, limVars, runVars, retryVars>>

\* buildGlobalDiff(files, options, maxLines)
GlobalDiff ==
  /\ fPc = "input"
  /\ fIn.fn = "buildGlobalDiff"
  /\ fPc' = "applied"
  /\ fOut' = buildGlobalDiff(fIn.files, fIn.options, fIn.maxLines)
  /\ UNCHANGED fIn
  /\ UNCHANGED <<diffVars, limVars, runVars, retryVars>>

\* extractJson(text)
ExtractJson ==
  /\ fPc = "input"
  /\ fIn.fn = "extractJson"
  /\ fPc' = "applied"
  /\ fOut' = extractJson(fIn.text)
  /\ UNCHANGED fIn
  /\ UNCHANGED <<diffVars, limVars, runVars, retryVars>>

FnNext ==
  \/ ExtractJson
  \/ GlobalDiff
  \/ ParseGoal
  \/ ParseGlobal
  \/ ClassifyError
  \/ Filter
  \/ Normalize
  \/ Parse

SpecFn == FnInit /\ [][FnNext]_vars

-----------------------------------------------------------------------------
(* What the diff, read directly, says about each rendered position.        *)
(* These definitions state the properties; they do not follow the code.    *)

\* number of hunks rendered, and of lines (header included) rendered of hunk h
ShownHunks(file, options) == Min(Len(file.hunks), options.maxHunksPerFile)
ShownOf(file, options, h) ==
  1 + Min(Len(file.hunks[h].lines), options.maxLinesPerHunk)

RECURSIVE ShownBefore(_, _, _)
ShownBefore(file, options, h) ==
  IF h <= 1 THEN 0
  ELSE ShownBefore(file, options, h - 1) + ShownOf(file, options, h - 1)

\* real lines (header and whole body) of the hunks before hunk h
RECURSIVE RealBefore(_, _)
RealBefore(file, h) ==
  IF h <= 1 THEN 0
  ELSE RealBefore(file, h - 1) + 1 + Len(file.hunks[h - 1].lines)

ShownTotal(file, options) ==
  ShownBefore(file, options, ShownHunks(file, options) + 1)

\* the hunk (1-based) whose rendering holds virtual position p
HunkAt(file, options, p) ==
  CHOOSE h \in 1..ShownHunks(file, options) :
    /\ ShownBefore(file, options, h) < p
    /\ p <= ShownBefore(file, options, h) + ShownOf(file, options, h)

\* 1-based index of virtual position p among all real lines of the file's diff
RealIndex(file, options, p) ==
  LET h == HunkAt(file, options, p)
  IN RealBefore(file, h) + (p - ShownBefore(file, options, h))

IsHeaderAt(file, options, p) ==
  p = ShownBefore(file, options, HunkAt(file, options, p)) + 1

Rendered == DOMAIN dPatch.lineMeta

\* reviewable rendered positions of p's own hunk at or after / at or before p
ForwardCandidates(p) ==
  {q \in Rendered : /\ q >= p
                    /\ HunkAt(dFile, dOptions, q) = HunkAt(dFile, dOptions, p)
                    /\ dPatch.lineMeta[q].reviewable}
BackwardCandidates(p) ==
  {q \in Rendered : /\ q <= p
                    /\ HunkAt(dFile, dOptions, q) = HunkAt(dFile, dOptions, p)
                    /\ dPatch.lineMeta[q].reviewable}

SetMin(S) == CHOOSE x \in S : \A y \in S : x <= y
SetMax(S) == CHOOSE x \in S : \A y \in S : x >= y

\* new-file line numbers of the body lines of hunk h (1-based) of the file
HunkLineNumbers(file, h) ==
  {file.hunks[h].lines[i].newNumber : i \in 1..Len(file.hunks[h].lines)} \ {Null}

-----------------------------------------------------------------------------
(* Claims about the diff functions, checked under SpecDiff *)

\* C2: resolveCommentPosition(p) is the fileLineNumber of the smallest
\* reviewable rendered position q >= p of p's own hunk (p's own when p is
\* reviewable), and unresolvable when p is not rendered or its hunk holds no
\* reviewable line at or after p, whatever later hunks hold.
C2_ResolveForward ==
  dPc = "resolved" =>
    IF dQuery \notin Rendered THEN dStart = Null
    ELSE IF ForwardCandidates(dQuery) = {} THEN dStart = Null
    ELSE /\ dStart = dPatch.lineMeta[SetMin(ForwardCandidates(dQuery))].fileLineNumber
         /\ dStart # Null
         /\ dPatch.lineMeta[dQuery].reviewable
              => dStart = dPatch.lineMeta[dQuery].fileLineNumber

\* C2 witness: a non-reviewable p snapped forward to a later line of its hunk
C2_WitnessSnap ==
  /\ dPc = "resolved"
  /\ dQuery \in Rendered
  /\ ~dPatch.lineMeta[dQuery].reviewable
  /\ dStart # Null
  /\ dQuery + 2 \in Rendered
  /\ dStart = dPatch.lineMeta[dQuery + 2].fileLineNumber

\* C3: resolveEndPosition(p) is the fileLineNumber of the largest reviewable
\* rendered position q <= p of p's own hunk, unresolvable when p is not
\* rendered or no such q exists, and never a line of another hunk.
C3_ResolveBackward ==
  dPc = "resolved" =>
    IF dQuery \notin Rendered THEN dEnd = Null
    ELSE IF BackwardCandidates(dQuery) = {} THEN dEnd = Null
    ELSE /\ dEnd = dPatch.lineMeta[SetMax(BackwardCandidates(dQuery))].fileLineNumber
         /\ dEnd \in HunkLineNumbers(dFile, HunkAt(dFile, dOptions, dQuery))

\* C3 witness: a non-reviewable p of the second hunk snapped back to an
\* earlier line of that hunk
C3_WitnessSnap ==
  /\ dPc = "resolved"
  /\ dQuery \in Rendered
  /\ HunkAt(dFile, dOptions, dQuery) = 2
  /\ ~dPatch.lineMeta[dQuery].reviewable
  /\ dEnd # Null
  /\ dQuery - 1 \in Rendered
  /\ dEnd = dPatch.lineMeta[dQuery - 1].fileLineNumber

\* C4: the diffPosition of every rendered line is its 1-based index among all
\* header and body lines of the file's hunks, truncated body lines counted;
\* it is strictly increasing in the virtual position, and the header after a
\* hunk of n body lines is n + 1 past that hunk's header, whatever the cap.
C4_DiffPositionCountsRealLines ==
  dPc # "input" =>
    /\ Rendered = 1..ShownTotal(dFile, dOptions)
    /\ \A p \in Rendered :
         dPatch.lineMeta[p].diffPosition = RealIndex(dFile, dOptions, p)
    /\ \A p, q \in Rendered :
         p < q => dPatch.lineMeta[p].diffPosition < dPatch.lineMeta[q].diffPosition
    /\ \A p, q \in Rendered :
         /\ IsHeaderAt(dFile, dOptions, p)
         /\ IsHeaderAt(dFile, dOptions, q)
         /\ HunkAt(dFile, dOptions, q) = HunkAt(dFile, dOptions, p) + 1
         => dPatch.lineMeta[q].diffPosition =
              dPatch.lineMeta[p].diffPosition
                + Len(dFile.hunks[HunkAt(dFile, dOptions, p)].lines) + 1

\* C4 witness: a hunk of 5 lines capped at 2; the next header is virtual
\* position 4 and has diffPosition 7
C4_WitnessFiveCappedAtTwo ==
  /\ dPc = "built"
  /\ Len(dFile.hunks[1].lines) = 5
  /\ dOptions.maxLinesPerHunk = 2
  /\ 4 \in Rendered
  /\ IsHeaderAt(dFile, dOptions, 4)
  /\ dPatch.lineMeta[4].diffPosition = 7

-----------------------------------------------------------------------------
(* Claims about pLimit, checked under SpecLimit *)

\* C9: with limit >= 1, at every moment the number of tasks that have been
\* started and have not yet settled is at most limit, for every number of
\* tasks and every order in which they complete.
C9_AtMostLimitInFlight ==
  lLimit >= 1 => Cardinality(Running) <= lLimit

\* C9 witness: 3 tasks under limit 2; the second settled first, and the third
\* runs beside the first: the limit is reached again
C9_WitnessSlotReused ==
  /\ Len(lTasks) = 3
  /\ lLimit = 2
  /\ lOrder = <<2>>
  /\ Running = {1, 3}

AllFulfilled == \A i \in DOMAIN lState : lState[i] = "fulfilled"

\* C10: no task is invoked twice; when every task succeeds pLimit does not
\* reject, and once nothing is left to run it has resolved to an array as long
\* as tasks whose i-th entry is what tasks[i] returned, each task invoked
\* exactly once, whatever the completion order; [] for an empty task list.
C10_ResultsInTaskOrder ==
  /\ \A i \in DOMAIN lCalls : lCalls[i] <= 1
  /\ AllFulfilled =>
       /\ lPc # "rejected"
       /\ ~ENABLED LimitNext => lPc = "done"
       /\ lPc = "done" =>
            /\ lOut.ok
            /\ DOMAIN lOut.val = 1..Len(lTasks)
            /\ \A i \in DOMAIN lTasks :
                 lOut.val[i] = lReturned[i] /\ lCalls[i] = 1

\* C10 witness: three tasks that completed in the order 2, 3, 1 and returned
\* different values
C10_WitnessOutOfOrder ==
  /\ lPc = "done"
  /\ Len(lTasks) = 3
  /\ AllFulfilled
  /\ lOrder = <<2, 3, 1>>
  /\ lReturned[1] # lReturned[2]
  /\ lOut.val = lReturned

-----------------------------------------------------------------------------
(* Claims about run(), checked under Spec *)

\* the new-file line numbers of the added and context lines of a file that
\* lie within the hunk cap and the line cap, read from the diff itself
TrueAnchors(file, options) ==
  UNION {{file.hunks[h].lines[i].newNumber :
            i \in {j \in 1..Min(Len(file.hunks[h].lines), options.maxLinesPerHunk) :
                     file.hunks[h].lines[j].content \in {"+code", " code"}}} :
         h \in 1..Min(Len(file.hunks), options.maxHunksPerFile)}

CommentAnchored(c) ==
  \E k \in DOMAIN rFiles :
    /\ rFiles[k].path = c.path
    /\ c.line \in TrueAnchors(rFiles[k], rConfig)
    /\ c.start_line # Null => c.start_line \in TrueAnchors(rFiles[k], rConfig)

\* a finding's start can be anchored: its line is rendered and an added or
\* context line of the same hunk is rendered at or after it
StartMappable(patch, p) ==
  /\ p \in DOMAIN patch.lineMeta
  /\ \E q \in DOMAIN patch.lineMeta :
       /\ q >= p
       /\ patch.lineMeta[q].hunkIndex = patch.lineMeta[p].hunkIndex
       /\ patch.lineMeta[q].content \in {"+code", " code"}

MappableCount(k) ==
  Cardinality({j \in DOMAIN lOut.val[k].reviews :
                 StartMappable(rPatches[k], lOut.val[k].reviews[j].lineNumber)})

CommentsAt(comments, path) == SelectSeq(comments, LAMBDA c : c.path = path)

Aggregated_ == rPc \in {"Publish", "Fallback", "Done"}

\* C1: every comment handed to createReview names a filtered file and a line
\* (and start_line) that is the fileLineNumber of a reviewable rendered line of
\* that file's patch; a finding that cannot be anchored is dropped and does
\* not fail the run.
C1_CommentsAnchored ==
  /\ \A n \in DOMAIN rReviewCalls :
       \A j \in DOMAIN rReviewCalls[n].comments :
         CommentAnchored(rReviewCalls[n].comments[j])
  /\ Aggregated_ =>
       \A k \in DOMAIN rFiles :
         Len(CommentsAt(rComments, rFiles[k].path)) <= MappableCount(k)
  /\ rOutcome = "threw" => lPc = "idle"

\* C1 witness: a review was created with a comment snapped from a line that
\* is not reviewable, while another file's only finding was dropped
C1_WitnessSnappedAndDropped ==
  /\ rPc = "Done"
  /\ rOutcome = "returned"
  /\ Len(rReviewCalls) = 1
  /\ Len(rFiles) = 2
  /\ Len(lOut.val[1].reviews) = 1
  /\ CommentsAt(rReviewCalls[1].comments, rFiles[1].path) = <<>>
  /\ Len(lOut.val[2].reviews) = 1
  /\ lOut.val[2].reviews[1].lineNumber \in DOMAIN rPatches[2].lineMeta
  /\ ~rPatches[2].lineMeta[lOut.val[2].reviews[1].lineNumber].reviewable
  /\ Len(CommentsAt(rReviewCalls[1].comments, rFiles[2].path)) = 1

ReviewFailed == Len(rReviewCalls) > 0 /\ rReviewCalls[1].status \notin 200..299

\* C5: createReview is called at most once; when it fails, postIssueComment is
\* called exactly once, with the body the review had; when it succeeds,
\* postIssueComment is not called.
C5_FallbackOnceOnFailure ==
  /\ Len(rReviewCalls) <= 1
  /\ Len(rIssueCalls) <= 1
  /\ \A n \in DOMAIN rIssueCalls :
       /\ ReviewFailed
       /\ rIssueCalls[n].body = rReviewCalls[1].body
  /\ rPc = "Done" =>
       /\ Len(rReviewCalls) = 1
       /\ Len(rIssueCalls) = IF ReviewFailed THEN 1 ELSE 0

\* C5 witness: a review with a summary and a comment failed, and the plain
\* comment carried its body
C5_WitnessFallbackPosted ==
  /\ rPc = "Done"
  /\ ReviewFailed
  /\ rReviewCalls[1].comments # <<>>
  /\ rReviewCalls[1].body.summary = "S"
  /\ Len(rIssueCalls) = 1
  /\ rIssueCalls[1].body = rReviewCalls[1].body

GoalResolved == rGoal.state \in {"failed", "unparsed", "ok"}
GlobalResolved == rGlobal.state \in {"disabled", "failed", "unparsed", "ok"}

\* C7: no inline task is built and no inline prompt is sent before the goal
\* and the global summary are resolved; a failed call, an answer that does
\* not parse and a disabled global pass resolve them to empty values, and the
\* prompt embeds the resolved values.
C7_InlineAfterGoalAndGlobal ==
  /\ (rPc # "idle" /\ lPc # "idle") => GoalResolved /\ GlobalResolved
  /\ \A i \in DOMAIN lCalls :
       (rPc # "idle" /\ lCalls[i] > 0) =>
         /\ GoalResolved /\ GlobalResolved
         /\ lPrompt[i].goal = rGoal.goal
         /\ lPrompt[i].summary = rGlobal.summary
  /\ rGoal.state \in {"failed", "unparsed"} => rGoal.goal = ""
  /\ rGlobal.state \in {"disabled", "failed", "unparsed"} => rGlobal.summary = ""

\* C7 witness: the goal call failed, the global answer did not parse, and an
\* inline prompt was sent with both empty
C7_WitnessResolvedToEmpty ==
  /\ rGoal.state = "failed"
  /\ rGlobal.state = "unparsed"
  /\ \E i \in DOMAIN lCalls :
       /\ lCalls[i] = 1
       /\ lPrompt[i].goal = ""
       /\ lPrompt[i].summary = ""

-----------------------------------------------------------------------------
(* Claims about withRetry, checked under SpecRetry *)

\* the calls of fn made so far all failed with a retryable error
AllRetryableFailures ==
  \A i \in 1..Len(wCalls) : ~wCalls[i].ok /\ isRetryableError(wCalls[i].error)

\* C11: when every call of fn fails with a retryable error, withRetry with
\* maxAttempts n >= 1 never calls fn more than n times, and it ends only
\* after exactly n calls, rejecting with the error of the n-th call.
C11_ExhaustsExactlyMaxAttempts ==
  (AllRetryableFailures /\ wOpts.maxAttempts >= 1) =>
    /\ Len(wCalls) <= wOpts.maxAttempts
    /\ wPc # "returned"
    /\ wPc = "threw" =>
         /\ Len(wCalls) = wOpts.maxAttempts
         /\ wOut = wCalls[wOpts.maxAttempts]
    /\ Len(wCalls) = wOpts.maxAttempts => wPc = "threw"

\* three attempts, three different retryable errors, the third one thrown
C11_WitnessThirdErrorThrown ==
  /\ wPc = "threw"
  /\ wOpts.maxAttempts = 3
  /\ wCalls = <<RejectedWith(E503), RejectedWith(EFetch), RejectedWith(E429)>>
  /\ wOut.error = E429

\* C12: every call of fn but the last one failed with a retryable error; a
\* call that fails with a non-retryable error ends withRetry at once with
\* that error and no sleep after it, however many attempts remain; a call
\* that succeeds ends withRetry with its value.
C12_StopsOnNonRetryableOrSuccess ==
  /\ \A i \in 1..(Len(wCalls) - 1) :
       ~wCalls[i].ok /\ isRetryableError(wCalls[i].error)
  /\ Len(wCalls) > 0 =>
       LET last == wCalls[Len(wCalls)]
       IN /\ (~last.ok /\ ~isRetryableError(last.error)) =>
               /\ wPc = "threw"
               /\ wOut = last
               /\ Len(wSlept) = Len(wCalls) - 1
          /\ last.ok =>
               /\ wPc = "returned"
               /\ wOut.value = last.value
               /\ Len(wSlept) = Len(wCalls) - 1
  /\ (Len(wCalls) > 0 /\ ~wCalls[1].ok /\ ~isRetryableError(wCalls[1].error)) =>
       Len(wCalls) = 1

\* a 404 on the second of three attempts: thrown with one attempt unused
C12_WitnessThrownWithAttemptsLeft ==
  /\ wPc = "threw"
  /\ wOpts.maxAttempts = 3
  /\ wCalls = <<RejectedWith(E503), RejectedWith(E404)>>
  /\ Len(wSlept) = 1
  /\ wOut.error = E404

-----------------------------------------------------------------------------
(* Claims about the pure functions, checked under SpecFn *)

\* the lower-cased message holds one of the network substrings
IsNetworkMessage(message) ==
  \E needle \in NetworkNeedles :
    includes([i \in 1..Len(message) |-> toLowerCase(message[i])], needle)

\* C13 as stated: isRetryableError answers true exactly for an Error with
\* status 429 or 5xx and for an Error without a status whose message is a
\* recognized network error; an Error carrying any other HTTP status is
\* non-retryable whatever its message, and so is every non-Error value.
C13_StatusDecidesWhateverMessage ==
  (fPc = "applied" /\ fIn.fn = "isRetryableError") =>
    LET e == fIn.error
    IN /\ ~e.isError => fOut = FALSE
       /\ (e.isError /\ e.status \in {400, 401, 403, 404, 422}) => fOut = FALSE
       /\ (e.isError /\ (e.status = 429 \/ e.status >= 500)) => fOut = TRUE
       /\ (e.isError /\ e.status = Null) => (fOut <=> IsNetworkMessage(e.message))

\* the file passes the include and exclude lists
Passes(file, options) ==
  /\ \/ Len(options.includePatterns) = 0
     \/ \E j \in DOMAIN options.includePatterns :
          minimatch(file.path, options.includePatterns[j])
  /\ ~\E j \in DOMAIN options.excludePatterns :
          minimatch(file.path, options.excludePatterns[j])

\* the files that pass, in the order of the diff
Survivors(files, options) == SelectSeq(files, LAMBDA file : Passes(file, options))

\* C14: filterDiffFiles keeps only files that pass (no include list or an
\* include match, and no exclude match), in the order of the diff; a file
\* that passes is left out only by the maxFiles cap, that is, the result is
\* a prefix of the passing files and it is all of them when they number at
\* most maxFiles.
C14_KeepsExactlyPassingFiles ==
  (fPc = "applied" /\ fIn.fn = "filterDiffFiles") =>
    LET passing == Survivors(fIn.files, fIn.options)
    IN /\ Len(fOut) <= Len(passing)
       /\ fOut = SubSeq(passing, 1, Len(fOut))
       /\ Len(passing) <= fIn.options.maxFiles => fOut = passing

\* an exclude match removes the include-matched documents; src/a.ts is kept
C14_WitnessExcludeAfterInclude ==
  /\ fPc = "applied"
  /\ fIn.fn = "filterDiffFiles"
  /\ fIn.options.includePatterns = <<"src/**", "*.md">>
  /\ fIn.options.excludePatterns = <<"*.md">>
  /\ fIn.options.maxFiles = 3
  /\ Len(fIn.files) = 3
  /\ fIn.files[1].path = "README.md"
  /\ fIn.files[2].path = "src/a.ts"
  /\ Len(fOut) = 1
  /\ fOut[1].path = "src/a.ts"

\* C15 as stated: for every maxFiles value filterDiffFiles returns at most
\* maxFiles files, exactly the first maxFiles passing files in diff order.
C15_AtMostMaxFiles ==
  (fPc = "applied" /\ fIn.fn = "filterDiffFiles") =>
    LET passing == Survivors(fIn.files, fIn.options)
    IN /\ Len(fOut) <= fIn.options.maxFiles
       /\ fOut = SubSeq(passing, 1, Min(fIn.options.maxFiles, Len(passing)))

\* C16: when the event is not a comment on a pull request, or its body does
\* not hold the trigger, run() goes from TriggerCheck to Skipped and nowhere
\* else, it returns without an error, and no context is fetched, the model
\* is never asked, and neither createReview nor postIssueComment is called.
C16_MismatchSkipsWithoutCalls ==
  (~rEvent.isPullRequest \/ ~rEvent.hasTrigger) =>
    /\ rPc \in {"TriggerCheck", "Skipped"}
    /\ rOutcome = IF rPc = "Skipped" THEN "returned" ELSE "running"
    /\ rFiles = <<>>
    /\ rGoal = Pending
    /\ rGlobal = Pending
    /\ lPc = "idle"
    /\ lCalls = <<>>
    /\ rReviewCalls = <<>>
    /\ rIssueCalls = <<>>

\* a trigger comment on a plain issue was skipped
C16_WitnessIssueCommentSkipped ==
  /\ rPc = "Skipped"
  /\ ~rEvent.isPullRequest
  /\ rEvent.hasTrigger
  /\ rDiff # <<>>
  /\ rOutcome = "returned"

\* the anchor of a start line, read from the patch: the new-file line of the
\* first added or context line rendered at or after it in its hunk
StartAnchorOf(patch, p) ==
  IF p \notin DOMAIN patch.lineMeta THEN Null
  ELSE LET cands == {q \in DOMAIN patch.lineMeta :
                       /\ q >= p
                       /\ patch.lineMeta[q].hunkIndex = patch.lineMeta[p].hunkIndex
                       /\ patch.lineMeta[q].content \in {"+code", " code"}}
       IN IF cands = {} THEN Null ELSE patch.lineMeta[SetMin(cands)].fileLineNumber

\* the anchor of an end line: the last such line at or before it in its hunk
EndAnchorOf(patch, p) ==
  IF p \notin DOMAIN patch.lineMeta THEN Null
  ELSE LET cands == {q \in DOMAIN patch.lineMeta :
                       /\ q <= p
                       /\ patch.lineMeta[q].hunkIndex = patch.lineMeta[p].hunkIndex
                       /\ patch.lineMeta[q].content \in {"+code", " code"}}
       IN IF cands = {} THEN Null ELSE patch.lineMeta[SetMax(cands)].fileLineNumber

\* the comment the claim prescribes for a finding with start anchor s
PrescribedComment(path, patch, f) ==
  LET s == StartAnchorOf(patch, f.lineNumber)
      e == IF f.endLineNumber = Null THEN Null
           ELSE EndAnchorOf(patch, f.endLineNumber)
      body == [badge |-> f.priority, text |-> f.reviewComment]
  IN IF e # Null /\ e # s
     THEN [path |-> path, body |-> body, line |-> e, side |-> "RIGHT",
           start_line |-> s, start_side |-> "RIGHT"]
     ELSE [path |-> path, body |-> body, line |-> s, side |-> "RIGHT",
           start_line |-> Null, start_side |-> "none"]

\* C17: the comments of a file are exactly those of its findings whose start
\* resolves to an anchor s: with an end line that resolves to an anchor e
\* different from s, start_line = s, start_side = RIGHT, line = e, side =
\* RIGHT; otherwise line = s, side = RIGHT and no start_line or start_side.
\* A finding whose start does not resolve has no comment. createReview is
\* handed these comments unchanged.
C17_MultiLineOnlyWhenEndDiffers ==
  /\ Aggregated_ =>
       \A k \in DOMAIN rFiles :
         Range(CommentsAt(rComments, rFiles[k].path))
           = {PrescribedComment(rFiles[k].path, rPatches[k], lOut.val[k].reviews[j]) :
                j \in {i \in DOMAIN lOut.val[k].reviews :
                         StartAnchorOf(rPatches[k], lOut.val[k].reviews[i].lineNumber)
                           # Null}}
  /\ \A n \in DOMAIN rReviewCalls : rReviewCalls[n].comments = rComments

\* a finding with an end line was published as a multi-line comment
C17_WitnessMultiLinePublished ==
  /\ rPc = "Done"
  /\ Len(rReviewCalls) = 1
  /\ \E j \in DOMAIN rReviewCalls[1].comments :
       LET c == rReviewCalls[1].comments[j]
       IN /\ c.start_line # Null
          /\ c.start_line < c.line
          /\ c.start_side = "RIGHT"
          /\ c.side = "RIGHT"

Spellings(word) ==
  CASE word = "critical" -> {"critical", "CRITICAL", "Critical"}
    [] word = "high" -> {"high", "HIGH", "High"}
    [] word = "medium" -> {"medium", "MEDIUM", "Medium"}
    [] word = "low" -> {"low", "LOW", "Low"}

\* the bucket the claim gives a priority value
Bucket(value) ==
  IF value \in Spellings("critical") THEN "high"
  ELSE IF value \in Spellings("high") THEN "high"
  ELSE IF value \in Spellings("medium") THEN "medium"
  ELSE IF value \in Spellings("low") THEN "low"
  ELSE "medium"

\* C20: normalizePriority maps critical to high and high, medium and low to
\* themselves, in any letter case, and every other value (missing, empty,
\* unrecognized) to medium; every finding parseReviews returns has a
\* priority among low, medium and high, the bucket of its item's priority.
C20_PriorityNormalized ==
  /\ (fPc = "applied" /\ fIn.fn = "normalizePriority") => fOut = Bucket(fIn.value)
  /\ (fPc = "applied" /\ fIn.fn = "parseReviews") =>
       /\ \A i \in DOMAIN fOut : fOut[i].priority \in {"low", "medium", "high"}
       /\ (fIn.text.kind = "json" /\ Len(fIn.text.obj.reviews) = Len(fOut)) =>
            \A i \in DOMAIN fOut :
              fOut[i].priority = Bucket(fIn.text.obj.reviews[i].priority)

\* the test's input: Urgent falls back to medium, LOW becomes low
C20_WitnessUrgentAndUpperLow ==
  /\ fPc = "applied"
  /\ fIn.fn = "parseReviews"
  /\ fIn.text.kind = "json"
  /\ Len(fIn.text.obj.reviews) = 2
  /\ fIn.text.obj.reviews[1].priority = "Urgent"
  /\ fIn.text.obj.reviews[2].priority = "LOW"
  /\ Len(fOut) = 2
  /\ fOut[1].priority = "medium"
  /\ fOut[2].priority = "low"

-----------------------------------------------------------------------------
(* Claims about the run as a whole, checked under FairSpec *)

\* the trigger matched: the run is past TriggerCheck
Matched == rPc = "FetchContext"

\* a review or a plain comment was accepted by the hosting platform
Responded ==
  \/ \E n \in DOMAIN rReviewCalls : rReviewCalls[n].status \in 200..299
  \/ \E n \in DOMAIN rIssueCalls : rIssueCalls[n].status \in 200..299

\* the hosting platform could not be reached: the context fetch failed, or
\* createReview and then postIssueComment both failed
Unreachable ==
  \/ rPc = "Failed"
  \/ /\ rPc = "Done"
     /\ Len(rReviewCalls) = 1
     /\ Len(rIssueCalls) = 1
     /\ rReviewCalls[1].status \notin 200..299
     /\ rIssueCalls[1].status \notin 200..299

\* at most one review and one plain comment are posted, never both accepted
AtMostOneResponse ==
  /\ Len(rReviewCalls) <= 1
  /\ Len(rIssueCalls) <= 1
  /\ ~(/\ Len(rReviewCalls) = 1 /\ rReviewCalls[1].status \in 200..299
       /\ Len(rIssueCalls) = 1)

HoldsString(text, name) ==
  /\ text.kind = "json"
  /\ name \in DOMAIN text.obj
  /\ text.obj[name] # NotAString

\* C21: each parser returns a value for every text (none throws): for a text
\* that is not JSON, parseReviews returns no finding, parseGlobalReview an
\* empty summary and no findings, parsePRGoal an empty goal and context; in
\* a JSON text every expected property that is missing or is not a string
\* (for parseReviews: a reviews value that is not an array) comes out empty.
C21_ParseFailureYieldsEmpty ==
  /\ (/\ fPc = "applied"
      /\ fIn.fn = "parseReviews"
      /\ (fIn.text.kind # "json" \/ ~fIn.text.obj.isArray)) => fOut = <<>>
  /\ (fPc = "applied" /\ fIn.fn = "parsePRGoal") =>
       /\ DOMAIN fOut = {"goal", "context"}
       /\ ~HoldsString(fIn.text, "goal") => fOut.goal = ""
       /\ ~HoldsString(fIn.text, "context") => fOut.context = ""
  /\ (fPc = "applied" /\ fIn.fn = "parseGlobalReview") =>
       /\ DOMAIN fOut = {"summary", "findings"}
       /\ ~HoldsString(fIn.text, "summary") => fOut.summary = ""
       /\ (fIn.text.kind # "json"
             \/ {"findings", "crossFileFindings"} \cap DOMAIN fIn.text.obj = {})
            => fOut.findings = <<>>

\* a JSON answer whose goal is a number and whose context is a string
C21_WitnessMistypedGoal ==
  /\ fPc = "applied"
  /\ fIn.fn = "parsePRGoal"
  /\ fIn.text.kind = "json"
  /\ DOMAIN fIn.text.obj = {"goal", "context"}
  /\ fIn.text.obj.goal = NotAString
  /\ fOut = [goal |-> "", context |-> "C"]

\* the rendering without a budget: per file the marker, then for each of the
\* first maxHunksPerFile hunks its header and its first maxLinesPerHunk lines
RECURSIVE Flatten(_)
Flatten(seqs) == IF seqs = <<>> THEN <<>> ELSE Head(seqs) \o Flatten(Tail(seqs))

UnlimitedHunk(hunk, options) ==
  <<hunk.header>>
    \o [i \in 1..Min(Len(hunk.lines), options.maxLinesPerHunk) |-> hunk.lines[i].content]

UnlimitedFile(file, options) ==
  <<FileMarker(file.path)>>
    \o Flatten([h \in 1..Min(Len(file.hunks), options.maxHunksPerFile) |->
                  UnlimitedHunk(file.hunks[h], options)])

Unlimited(files, options) ==
  Flatten([f \in 1..Len(files) |-> UnlimitedFile(files[f], options)])

\* C22: buildGlobalDiff emits at most maxLines lines, nothing when maxLines
\* <= 0, and what it emits is exactly the first maxLines lines of the
\* rendering made without a budget.
C22_GlobalDiffIsBudgetPrefix ==
  (fPc = "applied" /\ fIn.fn = "buildGlobalDiff") =>
    LET whole == Unlimited(fIn.files, fIn.options)
    IN /\ Len(fOut) <= Max(fIn.maxLines, 0)
       /\ fIn.maxLines <= 0 => fOut = <<>>
       /\ fOut = SubSeq(whole, 1, Min(Len(whole), Max(fIn.maxLines, 0)))

\* the budget ran out inside the second hunk of the first file: the rest of
\* the hunk and the second file are not emitted
C22_WitnessStoppedMidHunk ==
  /\ fPc = "applied"
  /\ fIn.fn = "buildGlobalDiff"
  /\ fIn.files = <<FileB, FileA>>
  /\ fIn.options.maxHunksPerFile = 2
  /\ fIn.options.maxLinesPerHunk = 4
  /\ fIn.maxLines = 8
  /\ Len(fOut) = 8
  /\ fOut[7] = FileB.hunks[2].header
  /\ fOut[8] = "+code"

-----------------------------------------------------------------------------
(* More claims about buildNumberedPatch, checked under SpecDiff *)

\* the DiffLine behind the rendered body position p
SourceLine(p) ==
  LET h == HunkAt(dFile, dOptions, p)
  IN dFile.hunks[h].lines[p - ShownBefore(dFile, dOptions, h) - 1]

\* C23: a rendered line is reviewable if and only if its type is add or normal
\* and its content is not a "no trailing newline" marker; hunk headers and
\* deleted lines are never reviewable, under every truncation setting.
C23_ReviewableIffAddOrNormalNotMarker ==
  dPc # "input" =>
    \A p \in Rendered :
      IF IsHeaderAt(dFile, dOptions, p) THEN ~dPatch.lineMeta[p].reviewable
      ELSE /\ dPatch.lineMeta[p].reviewable
                <=> /\ SourceLine(p).type \in {"add", "normal"}
                    /\ SourceLine(p).content # NoNewline
           /\ SourceLine(p).type = "del" => ~dPatch.lineMeta[p].reviewable

\* C23 witness: a truncated patch showing an added line (reviewable) followed
\* by the marker that carries its type (not reviewable)
C23_WitnessMarkerAfterAdd ==
  /\ dPc = "built"
  /\ Len(dFile.hunks[1].lines) > dOptions.maxLinesPerHunk
  /\ 3 \in Rendered
  /\ dPatch.lineMeta[2].reviewable
  /\ SourceLine(3).type = "add"
  /\ SourceLine(3).content = NoNewline
  /\ ~dPatch.lineMeta[3].reviewable

-----------------------------------------------------------------------------
(* extractJson, checked under SpecFn *)

\* index of the brace closing the one at `from`: depth counted from there
RECURSIVE ClosingOf(_, _, _)
ClosingOf(text, i, depth) ==
  IF i > Len(text) THEN 0
  ELSE LET d == CASE text[i] = "{" -> depth + 1
                  [] text[i] = "}" -> depth - 1
                  [] OTHER -> depth
       IN IF d = 0 THEN i ELSE ClosingOf(text, i + 1, d)

\* the first balanced {...} span of the text
FirstBalanced(text) ==
  LET opens == {i \in 1..Len(text) : text[i] = "{"}
      start == CHOOSE i \in opens : \A j \in opens : i <= j
  IN SubSeq(text, start, ClosingOf(text, start, 0))

\* C24: for a response wrapping a JSON object in a fence or in prose,
\* extractJson returns the first balanced {...} span, exactly that object.
C24_ReturnsFirstBalancedSpan ==
  (fPc = "applied" /\ fIn.fn = "extractJson") =>
    /\ fOut = FirstBalanced(fIn.text)
    /\ fOut = fIn.obj

\* C27: the rendered virtual positions are exactly 1..N, N the number of
\* rendered text lines, with lineMeta[p].position = p; only the first
\* maxHunksPerFile hunks are rendered, each as its header plus at most
\* maxLinesPerHunk body lines; hunkPositions[h] lists, strictly increasing and
\* starting with the hunk's header position, exactly the positions p with
\* lineMeta[p].hunkIndex = h, so every position belongs to exactly one hunk.
C27_PositionsContiguousPerHunk ==
  dPc # "input" =>
    LET shown == Min(Len(dFile.hunks), dOptions.maxHunksPerFile)
        hp == dPatch.hunkPositions
    IN /\ Rendered = 1..Len(dPatch.lines)
       /\ \A p \in Rendered :
            /\ dPatch.lineMeta[p].position = p
            /\ dPatch.lines[p][1] = p
            /\ dPatch.lines[p][2] = dPatch.lineMeta[p].content
       /\ DOMAIN hp = 0..(shown - 1)
       /\ \A h \in DOMAIN hp :
            /\ Len(hp[h]) = 1 + Min(Len(dFile.hunks[h + 1].lines), dOptions.maxLinesPerHunk)
            /\ \A k \in 1..(Len(hp[h]) - 1) : hp[h][k] < hp[h][k + 1]
            /\ dPatch.lineMeta[hp[h][1]].content = dFile.hunks[h + 1].header
            /\ \A k \in 2..Len(hp[h]) :
                 dPatch.lineMeta[hp[h][k]].content = dFile.hunks[h + 1].lines[k - 1].content
            /\ {hp[h][k] : k \in 1..Len(hp[h])}
                 = {p \in Rendered : dPatch.lineMeta[p].hunkIndex = h}
       /\ \A p \in Rendered :
            Cardinality({h \in DOMAIN hp : \E k \in 1..Len(hp[h]) : hp[h][k] = p}) = 1

\* C27 witness: test/diff.test.ts's file, a hunk of 5 lines capped at 2 and a
\* second hunk: positions 1..6, the second hunk holding 4, 5 and 6
C27_WitnessTwoCappedHunks ==
  /\ dPc = "built"
  /\ Len(dFile.hunks[1].lines) = 5
  /\ dOptions = [maxHunksPerFile |-> 2, maxLinesPerHunk |-> 2]
  /\ Rendered = 1..6
  /\ dPatch.hunkPositions[0] = <<1, 2, 3>>
  /\ dPatch.hunkPositions[1] = <<4, 5, 6>>

-----------------------------------------------------------------------------
(* More claims about pLimit, checked under SpecLimit *)

Queued == {i \in DOMAIN lState : lState[i] = "queued"}

\* no continuation of the limiter is waiting for its turn: no settled task
\* whose .finally()/next() has not run, no scheduled queue check, no await
\* that can resume, and the admission loop is not in the middle of a turn
Quiescent ==
  /\ lPc \in {"race", "all", "lib"}
  /\ \A i \in DOMAIN lState :
       lState[i] \in {"fulfilled", "failed"} => lP[i] # "pending"
  /\ lKicks = 0
  /\ lPc = "race" => lWait.out = "pending"

NoneFailed == \A i \in DOMAIN lState : lState[i] # "failed"

\* C25: the limiter is work-conserving and admits in input order: while no
\* task has failed, whenever the limiter has come to rest with a task still
\* waiting to start, limit tasks are in flight (a settled task's slot went to
\* the next queued task at once); and task j is never started before task i
\* for i < j.
C25_WorkConservingInOrder ==
  /\ (Quiescent /\ NoneFailed /\ Queued # {}) => Cardinality(Running) >= lLimit
  /\ \A i, j \in DOMAIN lState :
       (i < j /\ lState[j] # "queued") => lState[i] # "queued"
  /\ \A i \in DOMAIN lState : lState[i] = "queued" <=> i > lNext

\* C25 witness: limit 1, the first task has settled and the second took its
\* slot while the third still waits; the limiter is at rest
C25_WitnessSlotHandedOn ==
  /\ lImpl = "loop"
  /\ lLimit = 1
  /\ Len(lTasks) = 3
  /\ Quiescent
  /\ lState = <<"fulfilled", "running", "queued">>

\* C26: when pLimit's promise settles, no task is still running or still able
\* to write its result slot, also in runs where some task rejects.
C26_SettlesAfterEveryTask ==
  lPc \in {"done", "rejected"} => Running = {}

-----------------------------------------------------------------------------
(* More claims about withRetry, checked under SpecRetry *)

\* initialDelayMs * backoffFactor^(k-1), held at maxDelayMs once it reaches it
Backoff(k) ==
  LET grown == wOpts.initialDelayMs * Pow(wOpts.backoffFactor, k - 1)
  IN IF grown >= wOpts.maxDelayMs THEN wOpts.maxDelayMs ELSE grown

\* a delay follows every failed attempt but the last, and nothing else
SleepsBetweenAttemptsOnly ==
  /\ wPc \in {"call", "sleep"} => Len(wSlept) = Len(wCalls)
  /\ wPc \in {"returned", "threw"} => Len(wSlept) = Len(wCalls) - 1
  /\ wOpts.maxAttempts >= 1 => Len(wSlept) < wOpts.maxAttempts
  /\ \A k \in 1..Len(wSlept) : ~wCalls[k].ok

\* C28 as stated: the delay slept after failed attempt k grows as
\* initialDelayMs * backoffFactor^(k-1) up to the bound, and the delay slept,
\* jitter included, never exceeds maxDelayMs; no delay is slept after the
\* final attempt or after a success.
C28_SleptNeverExceedsMaxDelay ==
  /\ SleepsBetweenAttemptsOnly
  /\ \A k \in 1..Len(wSlept) :
       /\ wSlept[k] >= Backoff(k)
       /\ wSlept[k] <= wOpts.maxDelayMs

\* C28, amended: the delay slept after failed attempt k is the backoff
\* min(initialDelayMs * backoffFactor^(k-1), maxDelayMs) plus a jitter of less
\* than a quarter of it: the backoff never exceeds maxDelayMs, the delay slept
\* stays below 1.25 * maxDelayMs; no delay is slept after the final attempt or
\* after a success.
C28_BackoffCappedJitterOnTop ==
  /\ SleepsBetweenAttemptsOnly
  /\ \A k \in 1..Len(wSlept) :
       /\ Backoff(k) <= wOpts.maxDelayMs
       /\ wSlept[k] >= Backoff(k)
       /\ 4 * (wSlept[k] - Backoff(k)) < Backoff(k)
       /\ 4 * wSlept[k] < 5 * wOpts.maxDelayMs

\* C28 witness: delays 4 and then 8 + 1: the second backoff is at the bound
\* of 8 and the jitter comes on top of it
C28_WitnessJitterOverBound ==
  /\ wOpts.maxAttempts = 3
  /\ wOpts.initialDelayMs = 4
  /\ wOpts.maxDelayMs = 8
  /\ wSlept = <<4, 9>>
  /\ wPc = "threw"

\* C30: withRetry ends after at most max(1, maxAttempts) calls of fn, also
\* when fn always fails with a retryable error and maxAttempts is 0 or
\* negative.
C30_CallsBoundedByMaxAttempts ==
  Len(wCalls) <= Max(1, wOpts.maxAttempts)

-----------------------------------------------------------------------------
(* More claims about run(), checked under Spec *)

\* C29: every multi-line comment handed to createReview has start_line <
\* line, also when the start snapped forward and the end snapped backward
\* across non-reviewable lines or the two lie in different hunks.
C29_StartLineBeforeLine ==
  \A n \in DOMAIN rReviewCalls :
    \A j \in DOMAIN rReviewCalls[n].comments :
      LET c == rReviewCalls[n].comments[j]
      IN c.start_line # Null => c.start_line < c.line

====
